---- MODULE Spec2Model ----
\* Load-generation engine of nextjs-convex-load-tester: the basic script
\* (load-test.mjs), the advanced script and the comparison script
\* (unnamed/part_003) and the API route (app/api/load-test/route.ts).
\*
\* JavaScript runs one task at a time: an async function runs without
\* interruption from one await to the next.  Every action below is one such
\* uninterrupted segment.
EXTENDS Integers, Sequences, FiniteSets, TLC

VARIABLES variant, cfg, clock, pc, deadline, run, calls, handles, response, reports,
          verdict

vars == <<variant, cfg, clock, pc, deadline, run, calls, handles, response, reports,
          verdict>>

-----------------------------------------------------------------------------
\* Bounds of the model.

MaxQueries == 3
MaxConcurrency == 2
MaxTicks == 1
MaxSpin == 2

\* A comparison has two sub-runs (side by side in the route's 'both' mode, one
\* after the other in the comparison script); its totalQueries has a bound of
\* its own.
MaxBothQueries == 2

\* The recorder on its own: the largest number of samples of a generated
\* run, and the number of calls it still has to record.
MaxSamples == 4
MaxExtra == 1

\* Calls of each sub-run of a generated comparison.
MaxVerdictQueries == 2

\* One tick of the wall clock, in milliseconds, and the clock's last value.
TickMs == 2000
MaxClock == MaxTicks * TickMs

\* The sub-runs: 1 is the only run of a single run and the shared sub-run of
\* a comparison, 2 is the new-client sub-run of a comparison.
RunIds == {1, 2}

\* The payload size JSON.stringify(result).length of a resolved query, and
\* the messages a rejected query can carry.
BytesValues == {7}
ErrorMessages == {"rate limited"}
CtorError == "Client created with undefined deployment address"

-----------------------------------------------------------------------------
\* Arithmetic helpers.

Min(a, b) == IF a < b THEN a ELSE b
Max(a, b) == IF a > b THEN a ELSE b

\* createStats sets minLatency to Infinity; Math.min(Infinity, x) = x.
Infinity == -1
MathMin(a, b) == IF a = Infinity THEN b ELSE Min(a, b)

\* The value of a property that is not there.
Undefined == -2

-----------------------------------------------------------------------------
\* TEST_PATTERNS and getQueryLimit.

\* Names that are own keys of TEST_PATTERNS with a fixed limit.
FixedLimits(v) ==
  IF v = "api"
    THEN [small |-> 1, medium |-> 10, large |-> 50, xlarge |-> 100,
          xxlarge |-> 250, huge |-> 500, massive |-> 1000]
    ELSE [small |-> 1, medium |-> 10, large |-> 50]

MixedLimits(v) ==
  IF v = "api" THEN <<1, 10, 50, 100, 250, 500>> ELSE <<1, 5, 10, 25, 50>>

\* The registry: the own keys of TEST_PATTERNS.
Registry(v) == DOMAIN FixedLimits(v) \cup {"mixed"}

\* Keys every object literal inherits from Object.prototype: the lookup
\* TEST_PATTERNS[name] yields a function (for __proto__ the prototype object)
\* for them, not undefined; its .limit and, for __proto__, its .name are
\* undefined.
InheritedKeys ==
  {"constructor", "toString", "valueOf", "hasOwnProperty", "isPrototypeOf",
   "propertyIsEnumerable", "toLocaleString", "__proto__", "__defineGetter__",
   "__defineSetter__", "__lookupGetter__", "__lookupSetter__"}

\* TEST_PATTERNS[name] is undefined.
LookupUndefined(v, name) == name \notin Registry(v) \cup InheritedKeys

\* getQueryLimit with the list indexed by the 1-based number of the call.
getQueryLimitOneBased(v, queryNum, pattern) ==
  IF pattern = "mixed"
    THEN [threw |-> FALSE,
          limit |-> MixedLimits(v)[((queryNum + 1) % Len(MixedLimits(v))) + 1]]
  ELSE IF pattern \in DOMAIN FixedLimits(v)
    THEN [threw |-> FALSE, limit |-> FixedLimits(v)[pattern]]
  ELSE IF pattern \in InheritedKeys
    THEN [threw |-> FALSE, limit |-> Undefined]
  ELSE [threw |-> TRUE, limit |-> Undefined]

getQueryLimit(v, queryNum, pattern) ==
  IF pattern = "mixed"
    THEN [threw |-> FALSE,
          limit |-> MixedLimits(v)[(queryNum % Len(MixedLimits(v))) + 1]]
  ELSE IF pattern \in DOMAIN FixedLimits(v)
    THEN [threw |-> FALSE, limit |-> FixedLimits(v)[pattern]]
  ELSE IF pattern \in InheritedKeys
    THEN [threw |-> FALSE, limit |-> Undefined]
  ELSE [threw |-> TRUE, limit |-> Undefined]

-----------------------------------------------------------------------------
\* The statistics object.

BucketNames == {"0-50ms", "50-100ms", "100-200ms", "200-500ms", "500ms+"}

createStats ==
  [queries |-> <<>>, totalQueries |-> 0, successfulQueries |-> 0,
   failedQueries |-> 0, totalBytesTransferred |-> 0, totalLatency |-> 0,
   minLatency |-> Infinity, maxLatency |-> 0, errors |-> <<>>,
   startTime |-> 0, endTime |-> 0,
   latencyBuckets |-> [b \in BucketNames |-> 0]]

\* bucketOf with the boundaries on the wrong side (<= in the place of <).
bucketOfInclusive(latency) ==
  IF latency <= 50 THEN "0-50ms"
  ELSE IF latency <= 100 THEN "50-100ms"
  ELSE IF latency <= 200 THEN "100-200ms"
  ELSE IF latency <= 500 THEN "200-500ms"
  ELSE "500ms+"

bucketOf(latency) ==
  IF latency < 50 THEN "0-50ms"
  ELSE IF latency < 100 THEN "50-100ms"
  ELSE IF latency < 200 THEN "100-200ms"
  ELSE IF latency < 500 THEN "200-500ms"
  ELSE "500ms+"

\* updateTotals with the extremes overwritten by the latest latency.
updateTotalsOverwrite(st, latency, bytes) ==
  [st EXCEPT !.successfulQueries = @ + 1,
             !.totalBytesTransferred = @ + bytes,
             !.totalLatency = @ + latency,
             !.minLatency = latency,
             !.maxLatency = latency]

\* The five counter updates at the head of the try block.
updateTotals(st, latency, bytes) ==
  [st EXCEPT !.successfulQueries = @ + 1,
             !.totalBytesTransferred = @ + bytes,
             !.totalLatency = @ + latency,
             !.minLatency = MathMin(@, latency),
             !.maxLatency = Max(@, latency)]

\* onSuccess without the push of the sample.
onSuccessUnsampled(v, st, queryNum, latency, bytes, limit) ==
  IF v = "basic"
    THEN updateTotals(st, latency, bytes)
    ELSE [updateTotals(st, latency, bytes) EXCEPT
            !.latencyBuckets[bucketOf(latency)] = @ + 1]

\* The rest of the try block; the basic script keeps neither buckets nor
\* samples.
onSuccess(v, st, queryNum, latency, bytes, limit) ==
  IF v = "basic"
    THEN updateTotals(st, latency, bytes)
    ELSE [updateTotals(st, latency, bytes) EXCEPT
            !.latencyBuckets[bucketOf(latency)] = @ + 1,
            !.queries = Append(@, [queryNum |-> queryNum, latency |-> latency,
                                   bytes |-> bytes, limit |-> limit])]

\* onError that also keeps a sample of the failed call.
onErrorSampled(st, queryNum, msg) ==
  [st EXCEPT !.failedQueries = @ + 1,
             !.errors = Append(@, [queryNum |-> queryNum, error |-> msg]),
             !.queries = Append(@, [queryNum |-> queryNum, latency |-> 0,
                                    bytes |-> 0, limit |-> 0])]

\* The catch block.
onError(st, queryNum, msg) ==
  [st EXCEPT !.failedQueries = @ + 1,
             !.errors = Append(@, [queryNum |-> queryNum, error |-> msg])]

\* onFinally without the increment.
onFinallySkipped(st) == st

\* The finally block.
onFinally(st) == [st EXCEPT !.totalQueries = @ + 1]

-----------------------------------------------------------------------------
\* One call of executeQuery / executeQueryWithSharedClient /
\* executeQueryWithNewClient, as the dispatcher's launch log keeps it.

\* The call `i` (1-based within its batch) of the batch the loop is building.
\* A shared-client call starts its query at once.  A new-client call first
\* constructs a client, which throws inside the try block when CONVEX_URL is
\* undefined: the call is then over (failed) before any query is sent.
\* newCall with the index restarting at 1 in every batch.
newCallBatchLocal(v, c, rn, now, h, i) ==
  LET shared == rn.mode = "shared"
      sent == shared \/ c.url
  IN [queryNum |-> i,
      limit |-> getQueryLimit(v, rn.queryCount + i - 1, c.pattern).limit,
      batch |-> Len(rn.batchSizes) + 1,
      start |-> now,
      handle |-> IF shared THEN rn.client ELSE IF c.url THEN h + i ELSE 0,
      state |-> IF sent THEN "inflight" ELSE "failed",
      latency |-> 0,
      bytes |-> 0,
      error |-> IF sent THEN "" ELSE CtorError]

newCall(v, c, rn, now, h, i) ==
  LET shared == rn.mode = "shared"
      sent == shared \/ c.url
  IN [queryNum |-> rn.queryCount + i,
      limit |-> getQueryLimit(v, rn.queryCount + i - 1, c.pattern).limit,
      batch |-> Len(rn.batchSizes) + 1,
      start |-> now,
      handle |-> IF shared THEN rn.client ELSE IF c.url THEN h + i ELSE 0,
      state |-> IF sent THEN "inflight" ELSE "failed",
      latency |-> 0,
      bytes |-> 0,
      error |-> IF sent THEN "" ELSE CtorError]

\* A query resolved: the try block and the finally block.
executeQueryResolved(v, rn, call, latency, bytes) ==
  [rn EXCEPT !.stats =
     onFinally(onSuccess(v, @, call.queryNum, latency, bytes, call.limit))]

\* executeQueryRejected without the catch: the rejection reaches Promise.all
\* and the run.
executeQueryRethrows(rn, call, msg) ==
  [rn EXCEPT !.status = "failed", !.stats = onFinally(@)]

\* A query (or the client's construction) threw: the catch block and the
\* finally block.  The promise of the call resolves, it never rejects.
executeQueryRejected(rn, call, msg) ==
  [rn EXCEPT !.stats = onFinally(onError(@, call.queryNum, msg))]

\* The calls of a new batch whose client construction threw are recorded
\* while the batch is being built.
RECURSIVE recordSyncFailures(_, _, _)
recordSyncFailures(rn, batch, k) ==
  IF k > Len(batch) THEN rn
  ELSE recordSyncFailures(
         IF batch[k].state = "failed"
           THEN executeQueryRejected(rn, batch[k], batch[k].error)
           ELSE rn,
         batch, k + 1)

InFlight(cs) == {k \in DOMAIN cs : cs[k].state = "inflight"}

-----------------------------------------------------------------------------
\* runLoadTest of the API route, the advanced script and the comparison
\* script: a while loop that builds a batch, awaits it and goes on.

\* shouldContinue without the time budget.
shouldContinueByCount(v, c, rn, now) == rn.queryCount < c.totalQueries

shouldContinue(v, c, rn, now) ==
  IF v = "advanced" /\ c.duration > 0
    THEN (now - rn.stats.startTime) < c.duration * 1000
    ELSE rn.queryCount < c.totalQueries

\* batchSizeOf without the cap by the remaining calls.
batchSizeUncapped(c, rn) == c.concurrency

batchSizeOf(c, rn) == Min(c.concurrency, c.totalQueries - rn.queryCount)

\* BatchDrained with Promise.race: the join returns with the first call of
\* the batch that settles.
BatchRaced(cs, b) ==
  \/ \A k \in DOMAIN cs : cs[k].batch # b
  \/ \E k \in DOMAIN cs : cs[k].batch = b /\ cs[k].state # "inflight"

\* BatchDrained of a join that never returns.
BatchNeverDrained(cs, b) == FALSE

\* BatchDrained of a batch that is not awaited.
BatchNotAwaited(cs, b) == TRUE

\* await Promise.all(batch): every call of batch `b` is settled.
BatchDrained(cs, b) ==
  \A k \in DOMAIN cs : cs[k].batch = b => cs[k].state # "inflight"

\* The loop body up to its await.
launchBatch(v, c, rn, cs, h, now) ==
  LET bs == batchSizeOf(c, rn)
      batch == [i \in 1..Max(bs, 0) |-> newCall(v, c, rn, now, h, i)]
      rn1 == recordSyncFailures(rn, batch, 1)
  IN [run |-> [rn1 EXCEPT !.status = "joining",
                          !.batchSizes = Append(@, bs),
                          !.cur = Len(rn.batchSizes) + 1],
      calls |-> cs \o batch,
      handles |-> IF rn.mode = "new" /\ c.url THEN h + Max(bs, 0) ELSE h]

\* The loop test and what follows it up to the next await: the run ends, or
\* getQueryLimit throws on the first call of the batch, or a batch is started.
iterate(v, c, rn, cs, h, now) ==
  IF ~shouldContinue(v, c, rn, now)
    THEN [run |-> [rn EXCEPT !.status = "done", !.stats.endTime = now],
          calls |-> cs, handles |-> h]
  ELSE IF batchSizeOf(c, rn) >= 1 /\ getQueryLimit(v, rn.queryCount, c.pattern).threw
    THEN [run |-> [rn EXCEPT !.status = "failed"], calls |-> cs, handles |-> h]
  ELSE launchBatch(v, c, rn, cs, h, now)

IdleRun ==
  [status |-> "idle", mode |-> "shared", client |-> 0, queryCount |-> 0,
   batchSizes |-> <<>>, cur |-> 0, stats |-> createStats]

\* runLoadTest with the new-client run starting one call ahead.
runLoadTestAhead(v, c, mode, client, h, now) ==
  IF v \in {"advanced", "compare"} /\ LookupUndefined(v, c.pattern)
    THEN [run |-> [IdleRun EXCEPT !.status = "failed", !.mode = mode,
                                  !.client = client],
          calls |-> <<>>, handles |-> h]
    ELSE iterate(v, c,
                 [IdleRun EXCEPT !.mode = mode, !.client = client,
                                 !.stats.startTime = now,
                                 !.queryCount = IF mode = "new" THEN 1 ELSE 0],
                 <<>>, h, now)

\* The call of runLoadTest up to its first await.  The scripts read
\* pattern.name first, which throws when the lookup gave undefined.
runLoadTest(v, c, mode, client, h, now) ==
  IF v \in {"advanced", "compare"} /\ LookupUndefined(v, c.pattern)
    THEN [run |-> [IdleRun EXCEPT !.status = "failed", !.mode = mode,
                                  !.client = client],
          calls |-> <<>>, handles |-> h]
    ELSE iterate(v, c,
                 [IdleRun EXCEPT !.mode = mode, !.client = client,
                                 !.stats.startTime = now],
                 <<>>, h, now)

\* Iterations whose batch was empty.
Spins(rn) == Cardinality({i \in DOMAIN rn.batchSizes : rn.batchSizes[i] <= 0})

\* The state of the run after `queryCount += batchSize`.
afterJoin(rn) == [rn EXCEPT !.queryCount = @ + rn.batchSizes[Len(rn.batchSizes)]]

-----------------------------------------------------------------------------
\* runLoadTest of the basic script: a first loop builds every batch, calling
\* executeQuery for every query of the run, and a second loop awaits the
\* batches one after the other.

RECURSIVE createBatches(_, _, _, _)
createBatches(c, now, i, acc) ==
  IF i < c.totalQueries
    THEN LET batchSize == Min(c.concurrency, c.totalQueries - i)
             batch == [j \in 1..Max(batchSize, 0) |->
                         [queryNum |-> i + j, limit |-> 10,
                          batch |-> Len(acc.sizes) + 1, start |-> now,
                          handle |-> 1, state |-> "inflight", latency |-> 0,
                          bytes |-> 0, error |-> ""]]
         IN createBatches(c, now, i + c.concurrency,
                          [sizes |-> Append(acc.sizes, batchSize),
                           calls |-> acc.calls \o batch])
    ELSE acc

\* The head of the second loop: await the next batch, or finish.
awaitBatch(rn, i, now) ==
  IF i <= Len(rn.batchSizes)
    THEN [rn EXCEPT !.status = "joining", !.cur = i]
    ELSE [rn EXCEPT !.status = "done", !.stats.endTime = now]

\* delayDue without the test for the last batch.
delayDueAlways(c, rn) == c.delayMs > 0

\* if (CONFIG.delayMs > 0 && i < batches.length - 1), with i 1-based here.
delayDue(c, rn) == c.delayMs > 0 /\ rn.cur < Len(rn.batchSizes)

-----------------------------------------------------------------------------
\* JavaScript numbers: IEEE 754 doubles.  A finite number is
\* (-1)^neg * M * 2^e with 0 <= M < 2^53, M odd unless the number is 0; M is
\* kept in three limbs of 20 binary digits, M = m[1] * 2^40 + m[2] * 2^20 +
\* m[3].  Every operation rounds its exact result to the nearest such
\* number, a tie to the even significand.  -0 is not told from 0, and the
\* range of the exponent is not modelled.

\* F(v), with v worked out once, before F uses it.
With(v, F(_)) == CHOOSE r \in {F(a) : a \in {v}} : TRUE

LimbBase == 1048576

bigZero == <<0, 0, 0>>

\* The natural number i < 2^31 in limbs.
bigOf(i) == <<0, i \div LimbBase, i % LimbBase>>

\* The limbs brought back below LimbBase.
bigCarry(h, m, l) ==
  <<h + (m + l \div LimbBase) \div LimbBase, (m + l \div LimbBase) % LimbBase,
    l % LimbBase>>

bigOdd(x) == x[3] % 2 = 1

\* x * c for 0 <= c <= 1024
bigTimes(x, c) == bigCarry(x[1] * c, x[2] * c, x[3] * c)

bigPlus(x, y) == bigCarry(x[1] + y[1], x[2] + y[2], x[3] + y[3])

\* x - y for x >= y
bigMinus(x, y) ==
  LET bl == IF x[3] < y[3] THEN 1 ELSE 0
      bm == IF x[2] < y[2] + bl THEN 1 ELSE 0
  IN <<x[1] - y[1] - bm, x[2] - y[2] - bl + bm * LimbBase,
       x[3] - y[3] + bl * LimbBase>>

bigLess(x, y) ==
  \/ x[1] < y[1]
  \/ x[1] = y[1] /\ x[2] < y[2]
  \/ x[1] = y[1] /\ x[2] = y[2] /\ x[3] < y[3]

Pow2(s) ==
  <<1, 2, 4, 8, 16, 32, 64, 128, 256, 512, 1024, 2048, 4096, 8192, 16384,
    32768, 65536, 131072, 262144, 524288, 1048576>>[s + 1]

\* The number of binary digits of i.
RECURSIVE BitLength(_)
BitLength(i) ==
  IF i = 0 THEN 0
  ELSE IF i >= 1024 THEN 10 + BitLength(i \div 1024)
  ELSE 1 + BitLength(i \div 2)

bigBitLength(x) ==
  IF x[1] > 0 THEN 40 + BitLength(x[1])
  ELSE IF x[2] > 0 THEN 20 + BitLength(x[2])
  ELSE BitLength(x[3])

\* x * 2^s
RECURSIVE bigShiftLeft(_, _)
bigShiftLeft(x, s) ==
  IF s <= 0 THEN x
  ELSE IF s >= 20 /\ x[1] = 0
    THEN With(<<x[2], x[3], 0>>, LAMBDA y : bigShiftLeft(y, s - 20))
  ELSE IF s >= 10
    THEN With(bigTimes(x, 1024), LAMBDA y : bigShiftLeft(y, s - 10))
  ELSE bigTimes(x, Pow2(s))

\* floor(x / 2^p) for p = 2^t, t <= 10
bigCut(x, p) ==
  <<x[1] \div p, (x[2] + (x[1] % p) * LimbBase) \div p,
    (x[3] + (x[2] % p) * LimbBase) \div p>>

\* floor(x / 2^s)
RECURSIVE bigShiftRight(_, _)
bigShiftRight(x, s) ==
  IF s <= 0 \/ x = bigZero THEN x
  ELSE IF s >= 20 /\ x[1] < LimbBase
    THEN With(<<0, x[1], x[2]>>, LAMBDA y : bigShiftRight(y, s - 20))
  ELSE IF s >= 10
    THEN With(bigCut(x, 1024), LAMBDA y : bigShiftRight(y, s - 10))
  ELSE bigCut(x, Pow2(s))

\* The number of binary zeros i > 0 ends with.
RECURSIVE TrailingZeros(_)
TrailingZeros(i) ==
  IF i % 1024 = 0 THEN 10 + TrailingZeros(i \div 1024)
  ELSE IF i % 2 = 0 THEN 1 + TrailingZeros(i \div 2)
  ELSE 0

bigTrailingZeros(x) ==
  IF x[3] > 0 THEN TrailingZeros(x[3])
  ELSE IF x[2] > 0 THEN 20 + TrailingZeros(x[2])
  ELSE 40 + TrailingZeros(x[1])

Zero == [k |-> "num", neg |-> FALSE, m |-> bigZero, e |-> 0]
NaN == [k |-> "nan", neg |-> FALSE, m |-> bigZero, e |-> 0]
Inf == [k |-> "inf", neg |-> FALSE, m |-> bigZero, e |-> 0]
NegInf == [k |-> "inf", neg |-> TRUE, m |-> bigZero, e |-> 0]

\* The number (-1)^neg * N * 2^e for N < 2^54, with N made odd.
oddForm(neg, N, e) ==
  IF N = bigZero THEN Zero
  ELSE With(bigTrailingZeros(N), LAMBDA zeros :
         [k |-> "num", neg |-> neg, m |-> bigShiftRight(N, zeros),
          e |-> e + zeros])

\* The double nearest to (-1)^neg * (N + rest) * 2^e, where `rest` says
\* whether something less than 1 was left out of N; an N with something
\* left out has more than 54 digits.  `s` is the number of digits N has
\* above 53, at most 20: the digit after the 53rd decides, and a tie goes
\* to the even significand.
roundDigits(neg, N, e, rest, s) ==
  IF s <= 0 THEN oddForm(neg, N, e)
  ELSE With(bigShiftRight(N, s - 1), LAMBDA kept :
       With(bigCut(kept, 2), LAMBDA M :
         IF bigOdd(kept) /\ (rest \/ N[3] % Pow2(s - 1) # 0 \/ bigOdd(M))
           THEN With(bigPlus(M, bigOf(1)), LAMBDA up : oddForm(neg, up, e + s))
           ELSE oddForm(neg, M, e + s)))

roundDouble(neg, N, e, rest) ==
  With(bigBitLength(N) - 53, LAMBDA s : roundDigits(neg, N, e, rest, s))

\* The integer i.
Num(i) ==
  With(bigOf(IF i < 0 THEN -i ELSE i), LAMBDA N : oddForm(i < 0, N, 0))

\* null, which JSON has in the place of NaN and Infinity.
Null == [k |-> "null", neg |-> FALSE, m |-> bigZero, e |-> 0]

\* The number an operand of - and / is converted to: null counts as 0.
ToNumber(a) == IF a.k = "null" THEN Zero ELSE a

\* The i-th of the digits ds, 0 past their end.
digitAt(ds, i) == IF i <= Len(ds) THEN ds[i] ELSE 0

\* The number 1.d1 d2 ... d6 * 2^60 of the digits <<1, d1, ..., d6>>, each
\* d of ten binary digits.
bigOfDigits(ds) ==
  <<(ds[1] * 1024 + digitAt(ds, 2)) * 1024 + digitAt(ds, 3),
    digitAt(ds, 4) * 1024 + digitAt(ds, 5),
    digitAt(ds, 6) * 1024 + digitAt(ds, 7)>>

\* The digits ds followed by the first 10 * n binary digits of r / Y for
\* r < Y and 2^52 <= Y < 2^53, and whether r / Y has more digits than these;
\* no digits follow a remainder of 0.  Ten digits at a time are estimated
\* from the leading parts, floor(r / 2^24) and floor(Y / 2^34) + 1, which
\* gives them right or one too small, and `left` is what they leave of
\* r * 2^10.
RECURSIVE longDivision(_, _, _, _)
longDivision(r, Y, ds, n) ==
  IF n = 0 \/ r = bigZero THEN [q |-> bigOfDigits(ds), rest |-> r # bigZero]
  ELSE With((r[1] * 65536 + r[2] \div 16)
              \div (Y[1] * 64 + Y[2] \div 16384 + 1), LAMBDA low :
       With(bigCarry(r[1] * 1024 - Y[1] * low, r[2] * 1024 - Y[2] * low,
                     r[3] * 1024 - Y[3] * low), LAMBDA left :
         IF bigLess(left, Y)
           THEN With(Append(ds, low), LAMBDA ds1 :
                  longDivision(left, Y, ds1, n - 1))
           ELSE With(Append(ds, low + 1), LAMBDA ds1 :
                With(bigMinus(left, Y), LAMBDA r1 :
                  longDivision(r1, Y, ds1, n - 1)))))

\* The same for a divisor B < 2^20 and r < B, which are integers.
RECURSIVE shortDivision(_, _, _, _)
shortDivision(r, B, ds, n) ==
  IF n = 0 \/ r = 0 THEN [q |-> bigOfDigits(ds), rest |-> r # 0]
  ELSE With((r * 1024) % B, LAMBDA r1 :
       With(Append(ds, (r * 1024) \div B), LAMBDA ds1 :
         shortDivision(r1, B, ds1, n - 1)))

\* a / b for finite nonzero a and b: both significands are given as many
\* digits as the longer has, and twice the dividend when that is still less
\* than the divisor, so that the quotient lies between 1 and 2; sixty
\* digits of it are worked out and rounded.
quotientShort(a, b) ==
  With(BitLength(a.m[3]) - BitLength(b.m[3]), LAMBDA sh :
  With(IF sh < 0 THEN a.m[3] * Pow2(-sh) ELSE a.m[3], LAMBDA X :
  With(IF sh > 0 THEN b.m[3] * Pow2(sh) ELSE b.m[3], LAMBDA Y :
  With(IF X < Y THEN 1 ELSE 0, LAMBDA twice :
  With(shortDivision(X * Pow2(twice) - Y, Y, <<1>>, 6), LAMBDA res :
    roundDouble(a.neg # b.neg, res.q, a.e - b.e + sh - twice - 60,
                res.rest))))))

quotientLong(a, b) ==
  With(bigBitLength(a.m) - bigBitLength(b.m), LAMBDA sh :
  With(bigShiftLeft(a.m, 53 - bigBitLength(a.m)), LAMBDA X :
  With(bigShiftLeft(b.m, 53 - bigBitLength(b.m)), LAMBDA Y :
  With(IF bigLess(X, Y) THEN 1 ELSE 0, LAMBDA twice :
  With(bigMinus(bigTimes(X, Pow2(twice)), Y), LAMBDA r :
  With(longDivision(r, Y, <<1>>, 6), LAMBDA res :
    roundDouble(a.neg # b.neg, res.q, a.e - b.e + sh - twice - 60,
                res.rest)))))))

\* Significands below 2^20 are divided as integers.
quotient(a, b) ==
  IF a.m[1] = 0 /\ a.m[2] = 0 /\ b.m[1] = 0 /\ b.m[2] = 0
    THEN quotientShort(a, b)
    ELSE quotientLong(a, b)

\* a / b
divide(a, b) ==
  IF a.k = "nan" \/ b.k = "nan" THEN NaN
  ELSE IF a.k = "inf"
    THEN (IF b.k = "inf" THEN NaN
          ELSE IF a.neg # b.neg THEN NegInf ELSE Inf)
  ELSE IF b.k = "inf" THEN Zero
  ELSE IF b.m = bigZero
    THEN (IF a.m = bigZero THEN NaN
          ELSE IF a.neg # b.neg THEN NegInf ELSE Inf)
  ELSE IF a.m = bigZero THEN Zero
  ELSE quotient(a, b)

Quot(x, y) ==
  With(ToNumber(x), LAMBDA a : With(ToNumber(y), LAMBDA b : divide(a, b)))

\* -a
Negated(a) ==
  IF a.k = "nan" \/ (a.k = "num" /\ a.m = bigZero) THEN a
  ELSE [a EXCEPT !.neg = ~@]

\* p + q for p and q of the same sign, p.m = P * 2^(q.e - p.e)
sumOf(p, q, P) ==
  With(bigPlus(P, q.m), LAMBDA N : roundDouble(p.neg, N, q.e, FALSE))

\* p + q for p and q of opposite signs, p.m = P * 2^(q.e - p.e)
differenceOf(p, q, P) ==
  IF bigLess(q.m, P)
    THEN With(bigMinus(P, q.m), LAMBDA N : roundDouble(p.neg, N, q.e, FALSE))
    ELSE With(bigMinus(q.m, P), LAMBDA N : roundDouble(q.neg, N, q.e, FALSE))

\* p + q for p so much larger than q that q only counts as something left
\* out: P = p.m * 2^g has 56 digits, Y = floor(q.m * 2^(q.e - p.e + g)).
sumOfFar(p, q, g, P, Y) ==
  IF p.neg = q.neg
    THEN With(bigPlus(P, Y), LAMBDA N : roundDouble(p.neg, N, p.e - g, TRUE))
    ELSE With(bigPlus(Y, bigOf(1)), LAMBDA Y1 :
         With(bigMinus(P, Y1), LAMBDA N :
           roundDouble(p.neg, N, p.e - g, TRUE)))

\* p + q for finite nonzero p and q with p.e >= q.e
sumAligned(p, q) ==
  With(p.e - q.e, LAMBDA d :
  With(bigBitLength(p.m), LAMBDA len :
    IF len + d <= 68
      THEN With(bigShiftLeft(p.m, d), LAMBDA P :
             IF p.neg = q.neg THEN sumOf(p, q, P) ELSE differenceOf(p, q, P))
      ELSE With(bigShiftLeft(p.m, 56 - len), LAMBDA P :
           With(bigShiftRight(q.m, d - (56 - len)), LAMBDA Y :
             sumOfFar(p, q, 56 - len, P, Y)))))

\* a + b
add(a, b) ==
  IF a.k = "nan" \/ b.k = "nan" THEN NaN
  ELSE IF a.k = "inf"
    THEN (IF b.k = "inf" /\ a.neg # b.neg THEN NaN ELSE a)
  ELSE IF b.k = "inf" THEN b
  ELSE IF a.m = bigZero THEN b
  ELSE IF b.m = bigZero THEN a
  ELSE IF a.e >= b.e THEN sumAligned(a, b) ELSE sumAligned(b, a)

Plus(x, y) == With(x, LAMBDA a : With(y, LAMBDA b : add(a, b)))

\* a - b
Sub(x, y) ==
  With(ToNumber(x), LAMBDA a :
  With(Negated(ToNumber(y)), LAMBDA b : add(a, b)))

\* a * c for an integer 0 < c <= 1024
Times(x, c) ==
  With(x, LAMBDA a :
    IF a.k = "num"
      THEN With(bigTimes(a.m, c), LAMBDA N : roundDouble(a.neg, N, a.e, FALSE))
      ELSE a)

\* Math.abs(a)
AbsNum(x) ==
  With(x, LAMBDA a : IF a.k = "nan" THEN a ELSE [a EXCEPT !.neg = FALSE])

\* a < b, false when either is NaN
Lt(a, b) == With(Sub(a, b), LAMBDA d : d.k # "nan" /\ d.neg)

\* a > b
Gt(a, b) == Lt(b, a)

RECURSIVE Pow10(_)
Pow10(f) == IF f = 0 THEN 1 ELSE 10 * Pow10(f - 1)

\* N * 2^e rounded to an integer, a half upwards.
nearestInteger(N, e) ==
  IF e >= 0 THEN bigShiftLeft(N, e)
  ELSE With(bigShiftRight(N, (-e) - 1), LAMBDA kept :
       With(bigShiftRight(kept, 1), LAMBDA whole :
         bigPlus(whole, bigOf(kept[3] % 2))))

\* n / d for integers n and d; a d that divides n gives the integer n / d.
Rat(n, d) ==
  IF d > 0 /\ n % d = 0 THEN Num(n \div d) ELSE Quot(Num(n), Num(d))

\* The decimal with f <= 2 digits nearest to the finite number a >= 0, the
\* larger of two that are equally near, times 10^f.
fixedDigits(a, f) ==
  With(bigTimes(a.m, Pow10(f)), LAMBDA N :
  With(nearestInteger(N, a.e), LAMBDA digits :
    digits[2] * LimbBase + digits[3]))

\* x.toFixed(f) for f <= 2, read back as a number (parseFloat): the sign is
\* put in front of the decimal of the magnitude.  NaN and Infinity print as
\* themselves.
toFixed(x, f) ==
  With(x, LAMBDA a :
    IF a.k # "num" THEN a
    ELSE With(fixedDigits(a, f), LAMBDA n :
           Rat(IF a.neg THEN -n ELSE n, Pow10(f))))

\* a / b for integers a >= 0, b >= 0: x/0 is Infinity and 0/0 is NaN.
Div(a, b) == Rat(a, b)

\* (a - b) / c * 100
percentOf(a, b, c) == Times(Quot(Sub(a, b), c), 100)

\* sortedLatencies without the sort: the samples in recording order.
unsortedLatencies(st) == [i \in DOMAIN st.queries |-> st.queries[i].latency]

\* stats.queries.map(q => q.latency).sort((a, b) => a - b)
sortedLatencies(st) ==
  SortSeq([i \in DOMAIN st.queries |-> st.queries[i].latency],
          LAMBDA a, b : a < b)

\* percentileIndex with Math.floor and no decrement.
percentileIndexFloor(percentile, n) == (percentile * n) \div 100

\* Math.ceil((percentile / 100) * n) - 1, the 0-based index of the sample.
percentileIndex(percentile, n) == ((percentile * n + 99) \div 100) - 1

\* sliceErrors without the cut.
sliceErrorsAll(st, cap) == st.errors

\* stats.errors.slice(0, cap)
sliceErrors(st, cap) == SubSeq(st.errors, 1, Min(cap, Len(st.errors)))

\* latencies[Math.floor(latencies.length / 2)] of calculateMetrics.
routeMedian(lat) ==
  IF Len(lat) > 0 THEN Num(lat[(Len(lat) \div 2) + 1]) ELSE Num(0)

\* calculateMedianLatency of the scripts on a non-empty list.
scriptMedian(lat) ==
  LET mid == Len(lat) \div 2
  IN IF Len(lat) % 2 = 0
       THEN toFixed(Rat(lat[mid] + lat[mid + 1], 2), 0)
       ELSE Num(lat[mid + 1])

\* The median a variant reports.  The advanced script has no guard for the
\* empty list: (undefined + undefined) / 2 is NaN.
calculateMedianLatency(v, st) ==
  LET lat == sortedLatencies(st)
  IN IF v = "api" THEN routeMedian(lat)
     ELSE IF Len(lat) = 0 THEN (IF v = "compare" THEN Num(0) ELSE NaN)
     ELSE scriptMedian(lat)

\* The percentile a variant reports: the sample at percentileIndex, and 0
\* for the empty list (by the guard, or by `latencies[-1]?.toFixed(0) || 0`).
calculatePercentile(v, st, percentile) ==
  LET lat == sortedLatencies(st)
  IN IF Len(lat) > 0
       THEN Num(lat[percentileIndex(percentile, Len(lat)) + 1])
       ELSE Num(0)

\* (stats.endTime - stats.startTime) / 1000
totalDuration(st) == Rat(st.endTime - st.startTime, 1000)

\* stats.totalQueries / totalDuration
queriesPerSecond(st, duration) == Quot(Num(st.totalQueries), duration)

\* (stats.successfulQueries / stats.totalQueries) * 100
successRate(st) == Times(Div(st.successfulQueries, st.totalQueries), 100)

\* stats.minLatency === Infinity ? 0 : stats.minLatency
minLatencyGuarded(st) ==
  IF st.minLatency = Infinity THEN Num(0) ELSE Num(st.minLatency)

\* stats.minLatency as it is
minLatencyRaw(st) ==
  IF st.minLatency = Infinity THEN Inf ELSE Num(st.minLatency)

\* calculateMetrics of the API route.
calculateMetrics(st) ==
  With(totalDuration(st), LAMBDA duration :
    [duration |-> duration,
     qps |-> queriesPerSecond(st, duration),
     avgLatency |-> IF st.successfulQueries > 0
                      THEN Div(st.totalLatency, st.successfulQueries)
                      ELSE Num(0),
     medianLatency |-> calculateMedianLatency("api", st),
     p95Latency |-> calculatePercentile("api", st, 95),
     p99Latency |-> calculatePercentile("api", st, 99),
     minLatency |-> minLatencyGuarded(st),
     maxLatency |-> Num(st.maxLatency),
     successRate |-> successRate(st),
     latencyBuckets |-> st.latencyBuckets,
     errors |-> sliceErrors(st, 5)])

\* displayResults of the advanced script: what it prints.
displayResultsAdvanced(st) ==
  With(totalDuration(st), LAMBDA duration :
    [duration |-> toFixed(duration, 2),
     qps |-> toFixed(queriesPerSecond(st, duration), 2),
     avgLatency |-> toFixed(Div(st.totalLatency, st.successfulQueries), 2),
     medianLatency |-> calculateMedianLatency("advanced", st),
     p95Latency |-> calculatePercentile("advanced", st, 95),
     p99Latency |-> calculatePercentile("advanced", st, 99),
     minLatency |-> minLatencyRaw(st),
     maxLatency |-> Num(st.maxLatency),
     successRate |-> toFixed(successRate(st), 1),
     latencyBuckets |-> st.latencyBuckets,
     errors |-> sliceErrors(st, 5)])

\* displayResults of the comparison script: what it prints for one sub-run.
displayResultsCompare(st) ==
  With(totalDuration(st), LAMBDA duration :
    [duration |-> toFixed(duration, 2),
     rawDuration |-> duration,
     qps |-> toFixed(queriesPerSecond(st, duration), 2),
     avgLatency |->
       IF st.successfulQueries > 0
         THEN toFixed(Div(st.totalLatency, st.successfulQueries), 2)
         ELSE Num(0),
     medianLatency |-> calculateMedianLatency("compare", st),
     p95Latency |-> calculatePercentile("compare", st, 95),
     p99Latency |-> calculatePercentile("compare", st, 99),
     minLatency |-> minLatencyGuarded(st),
     maxLatency |-> Num(st.maxLatency),
     successRate |-> toFixed(successRate(st), 1),
     latencyBuckets |-> st.latencyBuckets,
     errors |-> sliceErrors(st, 3)])

\* displayResults of the basic script, which keeps no samples and no buckets.
displayResultsBasic(st) ==
  With(totalDuration(st), LAMBDA duration :
    [duration |-> toFixed(duration, 2),
     qps |-> toFixed(queriesPerSecond(st, duration), 2),
     avgLatency |-> toFixed(Div(st.totalLatency, st.successfulQueries), 2),
     minLatency |-> minLatencyRaw(st),
     maxLatency |-> Num(st.maxLatency),
     successRate |-> toFixed(successRate(st), 1),
     errors |-> sliceErrors(st, 10)])

\* The report a variant makes of a finished run.
reportOf(v, st) ==
  CASE v = "api" -> calculateMetrics(st)
    [] v = "advanced" -> displayResultsAdvanced(st)
    [] v = "compare" -> displayResultsCompare(st)
    [] OTHER -> displayResultsBasic(st)

-----------------------------------------------------------------------------
\* The comparison of the two reports.

MetricNames ==
  {"avgLatency", "medianLatency", "p95Latency", "p99Latency", "minLatency",
   "maxLatency", "qps", "duration"}

\* The value of a metric in the object displayResults returns.
metricOf(results, m) == IF m = "duration" THEN results.rawDuration ELSE results[m]

\* One entry of the metrics table of displayComparison.
compareMetric(shared, newClient, lowerIsBetter) ==
  LET diff == Sub(shared, newClient)
      percentDiff == toFixed(percentOf(shared, newClient, newClient), 1)
  IN [difference |-> toFixed(AbsNum(diff), 2),
      percent |-> AbsNum(percentDiff),
      winner |-> IF lowerIsBetter
                   THEN (IF Lt(shared, newClient) THEN "shared" ELSE "new")
                   ELSE (IF Gt(shared, newClient) THEN "shared" ELSE "new")]

\* The summary lines and the recommendation, from the two improvements and
\* the percentages shown for them.
summaryOf(avgLatencyImprovement, qpsImprovement, latencyShown, qpsShown) ==
  [latencyWinner |-> IF Gt(avgLatencyImprovement, Num(0)) THEN "shared" ELSE "new",
   latencyPercent |-> latencyShown,
   qpsWinner |-> IF Gt(qpsImprovement, Num(0)) THEN "shared" ELSE "new",
   qpsPercent |-> qpsShown,
   recommendation |->
     IF Gt(avgLatencyImprovement, Num(5)) \/ Gt(qpsImprovement, Num(5))
       THEN "shared" ELSE "similar"]

\* displayComparison of the comparison script: the improvements are rounded
\* to one decimal before they are tested.
displayComparison(sharedResults, newClientResults) ==
  With(toFixed(percentOf(newClientResults.avgLatency, sharedResults.avgLatency,
                         newClientResults.avgLatency), 1),
       LAMBDA avgLatencyImprovement :
  With(toFixed(percentOf(sharedResults.qps, newClientResults.qps,
                         newClientResults.qps), 1),
       LAMBDA qpsImprovement :
    [table |-> [m \in MetricNames |->
                  compareMetric(metricOf(sharedResults, m),
                                metricOf(newClientResults, m), m # "qps")],
     summary |-> summaryOf(avgLatencyImprovement, qpsImprovement,
                           IF Gt(avgLatencyImprovement, Num(0))
                             THEN avgLatencyImprovement
                             ELSE AbsNum(avgLatencyImprovement),
                           IF Gt(qpsImprovement, Num(0))
                             THEN qpsImprovement
                             ELSE AbsNum(qpsImprovement))]))

\* The numbers of the object calculateMetrics returns.
NumericFields ==
  {"duration", "qps", "avgLatency", "medianLatency", "p95Latency",
   "p99Latency", "minLatency", "maxLatency", "successRate"}

\* NextResponse.json on the server and response.json() in the dashboard:
\* JSON.stringify writes NaN and Infinity as null.
NextResponseJson(metrics) ==
  [f \in DOMAIN metrics |->
     IF f \in NumericFields /\ metrics[f].k # "num" THEN Null ELSE metrics[f]]

\* renderMetrics of the dashboard calls toFixed on every number of the
\* report, which throws a TypeError on null.
renderMetrics(metrics) ==
  [threw |-> \E f \in NumericFields : metrics[f].k = "null"]

\* renderComparison of the dashboard, on the two reports of the parsed
\* response: the improvements are tested as they are and rounded for display
\* only.
renderComparison(shared, new) ==
  With(percentOf(new.avgLatency, shared.avgLatency, new.avgLatency),
       LAMBDA avgLatencyImprovement :
  With(percentOf(shared.qps, new.qps, new.qps), LAMBDA qpsImprovement :
    [summary |-> summaryOf(avgLatencyImprovement, qpsImprovement,
                           IF Gt(avgLatencyImprovement, Num(0))
                             THEN toFixed(avgLatencyImprovement, 1)
                             ELSE toFixed(AbsNum(avgLatencyImprovement), 1),
                           IF Gt(qpsImprovement, Num(0))
                             THEN toFixed(qpsImprovement, 1)
                             ELSE toFixed(AbsNum(qpsImprovement), 1))]))

\* No comparison made yet.
NoVerdict == [summary |-> [recommendation |-> "none"]]

\* The render of the dashboard threw: nothing is shown.
PageThrew == [summary |-> [recommendation |-> "threw"]]

-----------------------------------------------------------------------------
\* The configurations.  The scripts read `parseInt(argv) || default`, which
\* never yields 0 (a 0 on the command line gives the default); the route
\* takes the request body as it comes.

ApiPatterns == {"mixed", "massive", "nosuch", "constructor"}
ScriptPatterns == {"medium", "mixed", "massive", "constructor"}

Config(patterns, totals, durations, delays, modes) ==
  [pattern : patterns, totalQueries : totals, concurrency : 1..MaxConcurrency,
   duration : durations, delayMs : delays, mode : modes, url : BOOLEAN]

Init ==
  /\ variant \in {"basic", "advanced", "compare", "api"}
  /\ cfg \in CASE variant = "api" ->
                    Config(ApiPatterns, 0..MaxQueries, {0}, {0},
                           {"shared", "new"})
                    \cup Config({"mixed", "nosuch"}, 0..MaxBothQueries, {0}, {0}, {"both"})
               [] variant = "advanced" ->
                    Config(ScriptPatterns, 1..MaxQueries, {0, 1}, {0}, {"shared"})
               [] variant = "compare" ->
                    Config({"mixed", "massive"}, 1..MaxBothQueries, {0}, {0}, {"both"})
               [] OTHER ->
                    Config({"medium"}, 1..MaxQueries, {0}, {0, TickMs}, {"shared"})
  /\ clock = 0
  /\ pc = "init"
  /\ deadline = 0
  /\ run = [r \in RunIds |-> IdleRun]
  /\ calls = [r \in RunIds |-> <<>>]
  /\ handles = 0
  /\ response = "none"
  /\ reports = <<>>
  /\ verdict = NoVerdict

-----------------------------------------------------------------------------
\* The API route's POST handler.

\* The runs the handler starts.
Started == IF cfg.mode = "both" THEN {1, 2} ELSE {1}

\* POST starting the sub-runs of a comparison one after the other: only the
\* shared sub-run is started before the handler's await.
POSTSequential ==
  /\ variant = "api" /\ pc = "init"
  /\ IF cfg.mode \in {"both", "shared"} /\ ~cfg.url
       THEN /\ response' = "error"
            /\ pc' = "responded"
            /\ UNCHANGED <<run, calls, handles>>
       ELSE LET withClient == cfg.mode \in {"both", "shared"}
                h1 == IF withClient THEN handles + 1 ELSE handles
                first == runLoadTest(variant, cfg,
                                     IF withClient THEN "shared" ELSE "new",
                                     IF withClient THEN h1 ELSE 0, h1, clock)
            IN /\ run' = [run EXCEPT ![1] = first.run]
               /\ calls' = [calls EXCEPT ![1] = first.calls]
               /\ handles' = first.handles
               /\ pc' = "awaiting"
               /\ UNCHANGED response
  /\ UNCHANGED <<variant, cfg, clock, deadline, reports, verdict>>

\* From the request to the handler's await.  new ConvexHttpClient(undefined)
\* throws, which the handler's catch turns into the error response.
POST ==
  /\ variant = "api" /\ pc = "init"
  /\ IF cfg.mode \in {"both", "shared"} /\ ~cfg.url
       THEN /\ response' = "error"
            /\ pc' = "responded"
            /\ UNCHANGED <<run, calls, handles>>
       ELSE LET withClient == cfg.mode \in {"both", "shared"}
                h1 == IF withClient THEN handles + 1 ELSE handles
                first == runLoadTest(variant, cfg,
                                     IF withClient THEN "shared" ELSE "new",
                                     IF withClient THEN h1 ELSE 0, h1, clock)
                second == IF cfg.mode = "both"
                            THEN runLoadTest(variant, cfg, "new", 0,
                                             first.handles, clock)
                            ELSE [run |-> run[2], calls |-> calls[2],
                                  handles |-> first.handles]
            IN /\ run' = [r \in RunIds |-> IF r = 1 THEN first.run ELSE second.run]
               /\ calls' = [r \in RunIds |->
                              IF r = 1 THEN first.calls ELSE second.calls]
               /\ handles' = second.handles
               /\ pc' = "awaiting"
               /\ UNCHANGED response
  /\ UNCHANGED <<variant, cfg, clock, deadline, reports, verdict>>

\* Respond with Promise.race: the report is made as soon as one run returns.
RespondEarly ==
  /\ variant = "api" /\ pc = "awaiting"
  /\ IF \E r \in Started : run[r].status = "failed"
       THEN /\ response' = "error"
            /\ UNCHANGED reports
       ELSE /\ \E r \in Started : run[r].status = "done"
            /\ response' = "report"
            /\ reports' = [r \in Started |-> calculateMetrics(run[r].stats)]
  /\ pc' = "responded"
  /\ UNCHANGED <<variant, cfg, clock, deadline, run, calls, handles, verdict>>

\* Promise.all settled: a rejected run gives the error response, otherwise
\* calculateMetrics is applied to every stats object and the report is sent.
Respond ==
  /\ variant = "api" /\ pc = "awaiting"
  /\ IF \E r \in Started : run[r].status = "failed"
       THEN /\ response' = "error"
            /\ UNCHANGED reports
       ELSE /\ \A r \in Started : run[r].status = "done"
            /\ response' = "report"
            /\ reports' = [r \in Started |-> calculateMetrics(run[r].stats)]
  /\ pc' = "responded"
  /\ UNCHANGED <<variant, cfg, clock, deadline, run, calls, handles, verdict>>

-----------------------------------------------------------------------------
\* The scripts' top level.

\* if (!CONVEX_URL) process.exit(1)
ExitUnconfigured ==
  /\ response' = "exit1"
  /\ pc' = "exited"
  /\ UNCHANGED <<run, calls, handles, deadline, reports, verdict>>

StartFirst(res) ==
  /\ run' = [run EXCEPT ![1] = res.run]
  /\ calls' = [calls EXCEPT ![1] = res.calls]
  /\ handles' = res.handles
  /\ pc' = "awaiting"
  /\ UNCHANGED <<response, deadline, reports, verdict>>

AdvancedMain ==
  /\ variant = "advanced" /\ pc = "init"
  /\ IF ~cfg.url
       THEN ExitUnconfigured
       ELSE StartFirst(runLoadTest(variant, cfg, "shared", 1, 1, clock))
  /\ UNCHANGED <<variant, cfg, clock>>

\* .then(displayResults, exit 0) / .catch(exit 1)
AdvancedExit ==
  /\ variant = "advanced" /\ pc = "awaiting"
  /\ run[1].status \in {"done", "failed"}
  /\ response' = IF run[1].status = "done" THEN "exit0" ELSE "exit1"
  /\ reports' = IF run[1].status = "done"
                  THEN [r \in {1} |-> reportOf(variant, run[r].stats)]
                  ELSE reports
  /\ pc' = "exited"
  /\ UNCHANGED <<variant, cfg, clock, deadline, run, calls, handles, verdict>>

CompareMain ==
  /\ variant = "compare" /\ pc = "init"
  /\ IF ~cfg.url
       THEN ExitUnconfigured
       ELSE StartFirst(runLoadTest(variant, cfg, "shared", 1, 1, clock))
  /\ UNCHANGED <<variant, cfg, clock>>

CompareWaitMs == 2000

\* The shared sub-run returned: displayResults, then the 2 s pause.
CompareAfterShared ==
  /\ variant = "compare" /\ pc = "awaiting"
  /\ run[1].status \in {"done", "failed"}
  /\ IF run[1].status = "done"
       THEN /\ reports' = [r \in {1} |-> reportOf(variant, run[r].stats)]
            /\ deadline' = clock + CompareWaitMs
            /\ pc' = "waiting"
            /\ UNCHANGED response
       ELSE /\ response' = "exit1"
            /\ pc' = "exited"
            /\ UNCHANGED <<reports, deadline>>
  /\ UNCHANGED <<variant, cfg, clock, run, calls, handles, verdict>>

\* The pause is over: the new-client sub-run starts.
CompareStartNew ==
  /\ variant = "compare" /\ pc = "waiting"
  /\ clock >= deadline
  /\ LET res == runLoadTest(variant, cfg, "new", 0, handles, clock)
     IN /\ run' = [run EXCEPT ![2] = res.run]
        /\ calls' = [calls EXCEPT ![2] = res.calls]
        /\ handles' = res.handles
  /\ pc' = "awaiting2"
  /\ UNCHANGED <<variant, cfg, clock, deadline, response, reports, verdict>>

\* The new-client sub-run returned: displayResults, displayComparison, exit.
CompareExit ==
  /\ variant = "compare" /\ pc = "awaiting2"
  /\ run[2].status \in {"done", "failed"}
  /\ response' = IF run[2].status = "done" THEN "exit0" ELSE "exit1"
  /\ reports' = IF run[2].status = "done"
                  THEN [r \in {1, 2} |-> reportOf(variant, run[r].stats)]
                  ELSE reports
  /\ verdict' = IF run[2].status = "done"
                  THEN displayComparison(reports'[1], reports'[2])
                  ELSE verdict
  /\ pc' = "exited"
  /\ UNCHANGED <<variant, cfg, clock, deadline, run, calls, handles>>

BasicMain ==
  /\ variant = "basic" /\ pc = "init"
  /\ IF ~cfg.url
       THEN ExitUnconfigured
       ELSE LET built == createBatches(cfg, clock, 0, [sizes |-> <<>>, calls |-> <<>>])
                rn == [IdleRun EXCEPT !.client = 1, !.stats.startTime = clock,
                                      !.batchSizes = built.sizes]
            IN StartFirst([run |-> awaitBatch(rn, 1, clock),
                           calls |-> built.calls, handles |-> 1])
  /\ UNCHANGED <<variant, cfg, clock>>

\* await Promise.all(batches[i]) returned.
BasicJoin ==
  /\ variant = "basic" /\ pc = "awaiting"
  /\ run[1].status = "joining"
  /\ BatchDrained(calls[1], run[1].cur)
  /\ IF delayDue(cfg, run[1])
       THEN /\ run' = [run EXCEPT ![1].status = "delay"]
            /\ deadline' = clock + cfg.delayMs
       ELSE /\ run' = [run EXCEPT ![1] = awaitBatch(@, @.cur + 1, clock)]
            /\ UNCHANGED deadline
  /\ UNCHANGED <<variant, cfg, clock, pc, calls, handles, response, reports, verdict>>

\* The setTimeout of the delay fired.
BasicDelayElapsed ==
  /\ variant = "basic" /\ pc = "awaiting"
  /\ run[1].status = "delay"
  /\ clock >= deadline
  /\ run' = [run EXCEPT ![1] = awaitBatch(@, @.cur + 1, clock)]
  /\ UNCHANGED <<variant, cfg, clock, pc, deadline, calls, handles, response, reports, verdict>>

BasicExit ==
  /\ variant = "basic" /\ pc = "awaiting"
  /\ run[1].status = "done"
  /\ response' = "exit0"
  /\ reports' = [r \in {1} |-> reportOf(variant, run[r].stats)]
  /\ pc' = "exited"
  /\ UNCHANGED <<variant, cfg, clock, deadline, run, calls, handles, verdict>>

-----------------------------------------------------------------------------
\* The steps every variant shares.

\* process.exit ends the program; a request handler's runs live on.
Alive == pc \notin {"init", "exited"}

\* Join with one join for the whole program: the loop goes on only when no
\* call of any run is in flight.
JoinTogether(r) ==
  /\ variant # "basic" /\ Alive
  /\ run[r].status = "joining"
  /\ \A o \in RunIds : InFlight(calls[o]) = {}
  /\ LET rn == afterJoin(run[r])
         res == iterate(variant, cfg, rn, calls[r], handles, clock)
     IN /\ (shouldContinue(variant, cfg, rn, clock) /\ batchSizeOf(cfg, rn) <= 0)
             => Spins(rn) < MaxSpin
        /\ run' = [run EXCEPT ![r] = res.run]
        /\ calls' = [calls EXCEPT ![r] = res.calls]
        /\ handles' = res.handles
  /\ UNCHANGED <<variant, cfg, clock, pc, deadline, response, reports, verdict>>

\* await Promise.all(batch) returned in the while loop of runLoadTest.  An
\* iteration with an empty batch (a spin) is taken at most MaxSpin times.
Join(r) ==
  /\ variant # "basic" /\ Alive
  /\ run[r].status = "joining"
  /\ BatchDrained(calls[r], run[r].cur)
  /\ LET rn == afterJoin(run[r])
         res == iterate(variant, cfg, rn, calls[r], handles, clock)
     IN /\ (shouldContinue(variant, cfg, rn, clock) /\ batchSizeOf(cfg, rn) <= 0)
             => Spins(rn) < MaxSpin
        /\ run' = [run EXCEPT ![r] = res.run]
        /\ calls' = [calls EXCEPT ![r] = res.calls]
        /\ handles' = res.handles
  /\ UNCHANGED <<variant, cfg, clock, pc, deadline, response, reports, verdict>>

\* CallSucceed with one accumulator for the whole program, as the advanced
\* script's module-level stats: every outcome goes into the first run's.
CallSucceedGlobal(r, k) ==
  /\ Alive
  /\ k \in InFlight(calls[r])
  /\ \E bytes \in BytesValues :
       LET latency == clock - calls[r][k].start
       IN /\ calls' = [calls EXCEPT ![r][k].state = "ok",
                                    ![r][k].latency = latency,
                                    ![r][k].bytes = bytes]
          /\ run' = [run EXCEPT ![1] =
                       executeQueryResolved(variant, @, calls[r][k], latency, bytes)]
  /\ UNCHANGED <<variant, cfg, clock, pc, deadline, handles, response, reports, verdict>>

\* The query of call k of run r resolved.
CallSucceed(r, k) ==
  /\ Alive
  /\ k \in InFlight(calls[r])
  /\ \E bytes \in BytesValues :
       LET latency == clock - calls[r][k].start
       IN /\ calls' = [calls EXCEPT ![r][k].state = "ok",
                                    ![r][k].latency = latency,
                                    ![r][k].bytes = bytes]
          /\ run' = [run EXCEPT ![r] =
                       executeQueryResolved(variant, @, calls[r][k], latency, bytes)]
  /\ UNCHANGED <<variant, cfg, clock, pc, deadline, handles, response, reports, verdict>>

\* The query of call k of run r threw.
CallFail(r, k) ==
  /\ Alive
  /\ k \in InFlight(calls[r])
  /\ \E msg \in ErrorMessages :
       /\ calls' = [calls EXCEPT ![r][k].state = "failed", ![r][k].error = msg]
       /\ run' = [run EXCEPT ![r] = executeQueryRejected(@, calls[r][k], msg)]
  /\ UNCHANGED <<variant, cfg, clock, pc, deadline, handles, response, reports, verdict>>

\* Time passes while the program runs.
Tick ==
  /\ pc \notin {"init", "exited", "responded"}
  /\ clock + TickMs <= MaxClock
  /\ clock' = clock + TickMs
  /\ UNCHANGED <<variant, cfg, pc, deadline, run, calls, handles, response, reports, verdict>>

Next ==
  \/ POST
  \/ Respond
  \/ AdvancedMain
  \/ AdvancedExit
  \/ CompareMain
  \/ CompareAfterShared
  \/ CompareStartNew
  \/ CompareExit
  \/ BasicMain
  \/ BasicJoin
  \/ BasicDelayElapsed
  \/ BasicExit
  \/ \E r \in RunIds : Join(r)
  \/ \E r \in RunIds : \E k \in DOMAIN calls[r] : CallSucceed(r, k)
  \/ \E r \in RunIds : \E k \in DOMAIN calls[r] : CallFail(r, k)
  \/ Tick

Spec == Init /\ [][Next]_vars

-----------------------------------------------------------------------------
\* The program under the scheduling of the event loop: a continuation that is
\* ready to run is run, a timer that was set fires, and every query that was
\* sent resolves or throws.  Only the time a timer waits for is followed.

Resolve == \E r \in RunIds : \E k \in DOMAIN calls[r] : CallSucceed(r, k) \/ CallFail(r, k)

\* Time passes while a setTimeout is pending.
TimerTick ==
  /\ pc = "waiting" \/ run[1].status = "delay"
  /\ clock < deadline
  /\ Tick

LiveNext ==
  \/ POST
  \/ Respond
  \/ AdvancedMain
  \/ AdvancedExit
  \/ CompareMain
  \/ CompareAfterShared
  \/ CompareStartNew
  \/ CompareExit
  \/ BasicMain
  \/ BasicJoin
  \/ BasicDelayElapsed
  \/ BasicExit
  \/ \E r \in RunIds : Join(r)
  \/ Resolve
  \/ TimerTick

LiveSpec ==
  /\ Init /\ [][LiveNext]_vars
  /\ WF_vars(\E r \in RunIds : Join(r))
  /\ WF_vars(BasicJoin)
  /\ WF_vars(Resolve)
  /\ WF_vars(TimerTick)

-----------------------------------------------------------------------------
\* The route with the requests it accepts: the body is not validated, so the
\* concurrency may be zero or negative.

RouteConcurrency == -1..MaxConcurrency

RouteInit ==
  /\ variant = "api"
  /\ \E c \in Config({"mixed"}, 0..MaxQueries, {0}, {0}, {"shared", "new"})
             \cup Config({"mixed"}, 0..MaxBothQueries, {0}, {0}, {"both"}),
        n \in RouteConcurrency :
       cfg = [c EXCEPT !.concurrency = n]
  /\ clock = 0
  /\ pc = "init"
  /\ deadline = 0
  /\ run = [r \in RunIds |-> IdleRun]
  /\ calls = [r \in RunIds |-> <<>>]
  /\ handles = 0
  /\ response = "none"
  /\ reports = <<>>
  /\ verdict = NoVerdict

RouteNext ==
  \/ POST
  \/ Respond
  \/ \E r \in RunIds : Join(r)
  \/ \E r \in RunIds : \E k \in DOMAIN calls[r] : CallSucceed(r, k)
  \/ \E r \in RunIds : \E k \in DOMAIN calls[r] : CallFail(r, k)
  \/ Tick

RouteSpec == RouteInit /\ [][RouteNext]_vars

-----------------------------------------------------------------------------
\* The recorder and the report on their own: a run whose calls resolve with
\* any latencies, whatever the dispatcher and the clock would allow.

\* Latencies (Date.now() - startTime) at and next to the bucket boundaries.
Latencies == {0, 49, 50, 99, 100, 199, 200, 499, 500}

\* Sizes of a generated run: small ones, and, where the samples are kept
\* (the basic script keeps none), those at which the 95th and the 99th
\* percentile leave the largest sample.
SampleSizes(v) ==
  IF v = "basic" THEN 0..MaxSamples ELSE 0..MaxSamples \cup {20, 100, 101}

\* Failures a generated run starts with, around the caps of the error samples.
FailureCounts == {0, 5, 10}

\* Generated latencies: sample i is (i * mul) % modulus; ascending by 1 and by
\* 10, descending, and scrambled with repetitions.
Shapes == {<<1, 1000>>, <<10, 2000>>, <<999, 1000>>, <<7, 10>>}
Samples(n, shape) == [i \in 1..n |-> (i * shape[1]) % shape[2]]

\* The next call the loop makes: it passes the number of calls made so far to
\* getQueryLimit and that number plus one to executeQuery.  The basic script
\* always asks for CONFIG.queryLimit.
nextCall(v, pattern, st) ==
  [queryNum |-> st.totalQueries + 1,
   limit |-> IF v = "basic" THEN 10
             ELSE getQueryLimit(v, st.totalQueries, pattern).limit]

\* The calls whose outcome may be recorded next.  With one call per batch the
\* route, the advanced script and the comparison script await a call before
\* they make the next one, so it is the call made last.  The basic script
\* has made every call of the run before its first await, and the calls
\* settle in any order: the next to settle is any call that has not settled.
\* stats keeps the number of a failed call only, so that is any call whose
\* number is not in the error list.
settling(v, c, st) ==
  IF v = "basic"
    THEN {[queryNum |-> q, limit |-> 10] :
            q \in (1..c.totalQueries)
                    \ {st.errors[e].queryNum : e \in DOMAIN st.errors}}
    ELSE {nextCall(v, c.pattern, st)}

RECURSIVE recordFailures(_, _, _, _)
recordFailures(v, pattern, rn, f) ==
  IF f = 0 THEN rn
  ELSE recordFailures(v, pattern,
         executeQueryRejected(rn, nextCall(v, pattern, rn.stats), "rate limited"),
         f - 1)

\* The samples lo..hi recorded in their order: the lower half of the range
\* first (the test makes it be computed first), then the upper half.
RECURSIVE recordSamples(_, _, _, _, _, _)
recordSamples(v, pattern, rn, samples, lo, hi) ==
  IF lo > hi THEN rn
  ELSE IF lo = hi
    THEN executeQueryResolved(v, rn, nextCall(v, pattern, rn.stats), samples[lo], 7)
  ELSE LET mid == (lo + hi) \div 2
           lower == recordSamples(v, pattern, rn, samples, lo, mid)
       IN IF lower.stats.totalQueries >= mid
            THEN recordSamples(v, pattern, lower, samples, mid + 1, hi)
            ELSE lower

\* A run that has recorded f failures and then the samples, the calls having
\* settled in the order they were made.
Recorded(v, pattern, f, samples) ==
  recordSamples(v, pattern,
                recordFailures(v, pattern,
                               [IdleRun EXCEPT !.status = "joining", !.client = 1],
                               f),
                samples, 1, Len(samples))

\* The patterns of a generated run.
MetricsPatterns(v) ==
  CASE v = "basic" -> {"medium"}
    [] v = "api" -> {"mixed", "massive"}
    [] OTHER -> {"medium", "mixed"}

MetricsInit ==
  /\ variant \in {"basic", "advanced", "compare", "api"}
  /\ \E n \in SampleSizes(variant), f \in FailureCounts, shape \in Shapes,
        extra \in 0..MaxExtra, pattern \in MetricsPatterns(variant) :
       /\ variant = "api" \/ n + f + extra >= 1
       /\ cfg = [pattern |-> pattern, totalQueries |-> n + f + extra,
                 concurrency |-> 1, duration |-> 0, delayMs |-> 0,
                 mode |-> "shared", url |-> TRUE]
       /\ run = [r \in RunIds |->
                   IF r = 1 THEN Recorded(variant, pattern, f, Samples(n, shape))
                   ELSE IdleRun]
  /\ clock = 0
  /\ pc = "awaiting"
  /\ deadline = 0
  /\ calls = [r \in RunIds |-> <<>>]
  /\ handles = 1
  /\ response = "none"
  /\ reports = <<>>
  /\ verdict = NoVerdict

\* The run has calls whose outcome is not recorded yet.
Recording ==
  /\ pc = "awaiting" /\ run[1].status = "joining"
  /\ run[1].stats.totalQueries < cfg.totalQueries

RecordSuccess ==
  /\ Recording
  /\ \E call \in settling(variant, cfg, run[1].stats),
        latency \in Latencies, bytes \in BytesValues :
       run' = [run EXCEPT ![1] =
                 executeQueryResolved(variant, @, call, latency, bytes)]
  /\ UNCHANGED <<variant, cfg, clock, pc, deadline, calls, handles, response, reports, verdict>>

RecordFailure ==
  /\ Recording
  /\ \E call \in settling(variant, cfg, run[1].stats), msg \in ErrorMessages :
       run' = [run EXCEPT ![1] = executeQueryRejected(@, call, msg)]
  /\ UNCHANGED <<variant, cfg, clock, pc, deadline, calls, handles, response, reports, verdict>>

\* Every call is recorded: the last join returns `elapsed` ms after the
\* start, the loop test fails and runLoadTest sets stats.endTime = Date.now()
\* and returns.  The report is made by the caller's continuation.
EndRun ==
  /\ pc = "awaiting" /\ run[1].status = "joining"
  /\ run[1].stats.totalQueries = cfg.totalQueries
  /\ \E elapsed \in {0, TickMs} :
       /\ clock' = clock + elapsed
       /\ run' = [run EXCEPT ![1].status = "done",
                             ![1].stats.endTime = clock']
  /\ UNCHANGED <<variant, cfg, pc, deadline, calls, handles, response, reports,
                 verdict>>

MetricsNext ==
  \/ RecordSuccess
  \/ RecordFailure
  \/ EndRun
  \/ Respond
  \/ AdvancedExit
  \/ BasicExit
  \/ CompareAfterShared

MetricsSpec == MetricsInit /\ [][MetricsNext]_vars

-----------------------------------------------------------------------------
\* The comparison on its own: two finished sub-runs of the same workload,
\* whatever their latencies and durations.

\* Latencies of the calls of a generated sub-run: two that differ by a fifth
\* and two that differ by just over five percent.
VerdictLatencies == {40, 50, 2374, 2500}

\* Durations (endTime - startTime, in ms) of a generated sub-run; a sub-run
\* lasts at least as long as one of its calls.
VerdictDurations == {0, 2500, 5000}

\* A finished sub-run of `total` calls: total - s failures, then s successes
\* with the same latency.
Finished(v, pattern, mode, total, s, latency, elapsed) ==
  LET rn == Recorded(v, pattern, total - s, [i \in 1..s |-> latency])
  IN [rn EXCEPT !.status = "done", !.mode = mode,
                !.client = IF mode = "shared" THEN 1 ELSE 0,
                !.stats.endTime = @ + elapsed]

VerdictInit ==
  /\ variant \in {"compare", "api"}
  /\ \E total \in 1..MaxVerdictQueries :
       /\ cfg = [pattern |-> "mixed", totalQueries |-> total,
                 concurrency |-> 1, duration |-> 0, delayMs |-> 0,
                 mode |-> "both", url |-> TRUE]
       /\ \E s1, s2 \in 0..total, l1, l2 \in VerdictLatencies,
             e1, e2 \in VerdictDurations :
            /\ s1 = 0 \/ e1 >= l1
            /\ s2 = 0 \/ e2 >= l2
            /\ run = [r \in RunIds |->
                        IF r = 1
                          THEN Finished(variant, "mixed", "shared", total, s1, l1, e1)
                          ELSE Finished(variant, "mixed", "new", total, s2, l2, e2)]
  /\ clock = 0
  /\ pc = IF variant = "compare" THEN "awaiting2" ELSE "awaiting"
  /\ deadline = 0
  /\ calls = [r \in RunIds |-> <<>>]
  /\ handles = 1 + cfg.totalQueries
  /\ response = "none"
  /\ reports = IF variant = "compare"
                 THEN [r \in {1} |-> reportOf(variant, run[r].stats)]
                 ELSE <<>>
  /\ verdict = NoVerdict

\* The dashboard received the response of a comparison and renders it:
\* renderMetrics of the shared report, renderMetrics of the new-client
\* report, then renderComparison.
RenderComparison ==
  /\ variant = "api" /\ pc = "responded" /\ response = "report"
  /\ DOMAIN reports = {1, 2}
  /\ verdict = NoVerdict
  /\ LET results == [r \in {1, 2} |-> NextResponseJson(reports[r])]
     IN verdict' = IF renderMetrics(results[1]).threw
                        \/ renderMetrics(results[2]).threw
                     THEN PageThrew
                     ELSE renderComparison(results[1], results[2])
  /\ UNCHANGED <<variant, cfg, clock, pc, deadline, run, calls, handles, response,
                 reports>>

VerdictNext ==
  \/ CompareExit
  \/ Respond
  \/ RenderComparison

VerdictSpec == VerdictInit /\ [][VerdictNext]_vars

-----------------------------------------------------------------------------
\* Vocabulary of the properties.

Variants == {"basic", "advanced", "compare", "api"}

\* The run stops on the call count, not on the time budget.
CountMode == ~(variant = "advanced" /\ cfg.duration > 0)
DurationMode == variant = "advanced" /\ cfg.duration > 0

Ceil(n, c) == (n + c - 1) \div c

CallsIn(cs, state) == {k \in DOMAIN cs : cs[k].state = state}
Settled(cs) == {k \in DOMAIN cs : cs[k].state # "inflight"}
BatchOf(cs, b) == {k \in DOMAIN cs : cs[k].batch = b}

RECURSIVE SumOf(_, _, _)
SumOf(cs, field, ks) ==
  IF ks = {} THEN 0
  ELSE LET k == CHOOSE x \in ks : TRUE
       IN cs[k][field] + SumOf(cs, field, ks \ {k})

\* No call of a later batch exists while a call of an earlier batch is in
\* flight.
Barrier(cs) ==
  \A j, k \in DOMAIN cs : cs[j].batch < cs[k].batch => cs[j].state # "inflight"

-----------------------------------------------------------------------------
\* C1: in count-based mode with concurrency C >= 1 a finished run has issued
\* exactly totalQueries = N calls, in ceil(N/C) batches; every batch has at
\* most C calls and every batch but the last has exactly C.
C1_ExactPartition ==
  \A r \in RunIds :
    (run[r].status = "done" /\ CountMode /\ cfg.concurrency >= 1) =>
      LET N == cfg.totalQueries
          C == cfg.concurrency
          sizes == run[r].batchSizes
      IN /\ Len(calls[r]) = N
         /\ \A k \in DOMAIN calls[r] : calls[r][k].queryNum = k
         /\ Len(sizes) = Ceil(N, C)
         /\ \A i \in DOMAIN sizes :
              /\ 1 <= sizes[i] /\ sizes[i] <= C
              /\ i < Len(sizes) => sizes[i] = C
              /\ Cardinality(BatchOf(calls[r], i)) = sizes[i]

\* A finished run whose last batch is smaller than the others.
C1_Witness ==
  \E r \in RunIds :
    /\ run[r].status = "done" /\ CountMode
    /\ cfg.totalQueries = 3 /\ cfg.concurrency = 2
    /\ run[r].batchSizes = <<2, 1>>

\* C2: in the advanced script, the comparison script and the API route a
\* batch is a join barrier: no call of a later batch is started while a call
\* of an earlier batch is unresolved, and a run never has more than
\* `concurrency` calls in flight.
C2_JoinBarrier ==
  (variant \in {"advanced", "compare", "api"} /\ cfg.concurrency >= 1) =>
    \A r \in RunIds :
      /\ Cardinality(InFlight(calls[r])) <= cfg.concurrency
      /\ Barrier(calls[r])

\* The second batch is in flight after a first batch in which one call failed
\* and one succeeded.
C2_Witness ==
  \E r \in RunIds :
    /\ variant = "api" /\ cfg.concurrency = 2
    /\ \E k \in InFlight(calls[r]) : calls[r][k].batch = 2
    /\ \E j, k \in BatchOf(calls[r], 1) :
         calls[r][j].state = "failed" /\ calls[r][k].state = "ok"

\* C3: in the basic script at most `concurrency` queries are in flight, and
\* the queries of a batch are not started before the batch before it has
\* resolved.
C3_BasicConcurrency ==
  variant = "basic" =>
    /\ Cardinality(InFlight(calls[1])) <= cfg.concurrency
    /\ Barrier(calls[1])

\* C4: a failing call aborts neither its batch nor its run: a run never fails
\* once it has issued a call, every call of a finished run is recorded, the
\* failed ones as failures, and a count-based run still issues all its calls.
C4_FailureIsolated ==
  \A r \in RunIds :
    /\ run[r].status = "failed" => calls[r] = <<>>
    /\ run[r].status = "done" =>
         /\ InFlight(calls[r]) = {}
         /\ run[r].stats.totalQueries = Len(calls[r])
         /\ run[r].stats.failedQueries = Cardinality(CallsIn(calls[r], "failed"))
         /\ (CountMode /\ cfg.concurrency >= 1) => Len(calls[r]) = cfg.totalQueries

\* A finished run of two batches whose first call failed and whose other
\* calls, of the same batch and of the next, succeeded.
C4_Witness ==
  \E r \in RunIds :
    /\ run[r].status = "done" /\ cfg.concurrency = 2 /\ Len(calls[r]) = 3
    /\ calls[r][1].state = "failed" /\ calls[r][1].error \in ErrorMessages
    /\ calls[r][2].state = "ok" /\ calls[r][3].state = "ok"

\* C5: in every state successfulQueries + failedQueries = totalQueries, and
\* every resolved call is counted once in totalQueries and once in the
\* counter of its outcome.
C5_CountsAgree ==
  \A r \in RunIds :
    LET st == run[r].stats
    IN /\ st.successfulQueries + st.failedQueries = st.totalQueries
       /\ st.totalQueries = Cardinality(Settled(calls[r]))
       /\ st.successfulQueries = Cardinality(CallsIn(calls[r], "ok"))
       /\ st.failedQueries = Cardinality(CallsIn(calls[r], "failed"))

\* Between two completions: one call succeeded, one failed, one in flight.
C5_Witness ==
  \E r \in RunIds :
    /\ run[r].status = "joining"
    /\ CallsIn(calls[r], "ok") # {}
    /\ CallsIn(calls[r], "failed") # {}
    /\ InFlight(calls[r]) # {}

\* The least and the largest latency of the calls ks (ks not empty).
LeastLatency(cs, ks) == CHOOSE m \in {cs[k].latency : k \in ks} :
                          \A k \in ks : m <= cs[k].latency
LargestLatency(cs, ks) == CHOOSE m \in {cs[k].latency : k \in ks} :
                            \A k \in ks : m >= cs[k].latency

\* C6: whatever the order in which calls resolve, the totals are those of
\* recording the same outcomes one after another: the counters count the
\* outcomes, the sums add them up, minLatency and maxLatency are the extremes;
\* when a batch has joined totalQueries has grown by the batch size.
C6_NoLostUpdate ==
  \A r \in RunIds :
    LET st == run[r].stats
        cs == calls[r]
        ok == CallsIn(cs, "ok")
    IN /\ st.successfulQueries = Cardinality(ok)
       /\ st.failedQueries = Cardinality(CallsIn(cs, "failed"))
       /\ st.totalLatency = SumOf(cs, "latency", ok)
       /\ st.totalBytesTransferred = SumOf(cs, "bytes", ok)
       /\ st.minLatency = IF ok = {} THEN Infinity ELSE LeastLatency(cs, ok)
       /\ st.maxLatency = IF ok = {} THEN 0 ELSE LargestLatency(cs, ok)
       /\ InFlight(cs) = {} => st.totalQueries = Len(cs)

\* A joined batch of two whose second call resolved first, with another
\* latency than the first.
C6_Witness ==
  \E r \in RunIds :
    /\ variant # "basic"
    /\ InFlight(calls[r]) = {}
    /\ Len(run[r].stats.queries) = 2
    /\ run[r].stats.queries[1].queryNum = 2
    /\ run[r].stats.queries[2].queryNum = 1
    /\ run[r].stats.queries[1].latency < run[r].stats.queries[2].latency
    /\ calls[r][1].batch = calls[r][2].batch

-----------------------------------------------------------------------------
\* Elapsed time of the advanced script's run at the current instant.
Elapsed == clock - run[1].stats.startTime
Budget == cfg.duration * 1000

\* A step in which the loop of run 1 makes its test: the script's start, or
\* the return of an awaited batch.
LoopTest ==
  \/ pc = "init" /\ pc' = "awaiting" /\ run[1]'.status # "failed"
  \/ /\ run[1].status = "joining"
     /\ \/ run[1]'.status # "joining"
        \/ run[1]'.batchSizes # run[1].batchSizes

\* C7: in duration mode of the advanced script every test of the loop that
\* finds elapsed < duration starts a batch, and the first test that finds
\* elapsed >= duration ends the run; the run ends only with every call of
\* every started batch resolved and recorded.
C7_Stopping ==
  (DurationMode /\ LoopTest) =>
    IF Elapsed < Budget
      THEN /\ run[1]'.status = "joining"
           /\ Len(run[1]'.batchSizes) = Len(run[1].batchSizes) + 1
      ELSE /\ run[1]'.status = "done"
           /\ run[1]'.batchSizes = run[1].batchSizes
           /\ run[1]'.stats.endTime = clock
           /\ InFlight(calls[1]) = {}
           /\ calls[1]' = calls[1]
           /\ run[1]'.stats.totalQueries = Len(calls[1])

\* C7 as a property of every step: each loop test of a duration-mode run
\* obeys the stopping rule above.
C7_DurationStop == [][C7_Stopping]_vars

\* A run that ended on the time budget after a call that was still in flight
\* when the budget expired had resolved and been recorded.
C7_Witness ==
  /\ DurationMode /\ run[1].status = "done"
  /\ run[1].stats.endTime >= Budget
  /\ \E k \in DOMAIN calls[1] :
       /\ calls[1][k].state = "ok"
       /\ calls[1][k].start < Budget
       /\ calls[1][k].start + calls[1][k].latency >= Budget
       /\ \E q \in DOMAIN run[1].stats.queries :
            run[1].stats.queries[q].queryNum = calls[1][k].queryNum

\* C8: in duration mode every loop iteration launches exactly `concurrency`
\* calls, also after totalQueries calls have been issued.
C8_FullBatches ==
  DurationMode =>
    \A i \in DOMAIN run[1].batchSizes : run[1].batchSizes[i] = cfg.concurrency

\* C9: with a pattern name that is not in the registry no call is issued and
\* no report is produced.
C9_UnknownPattern ==
  cfg.pattern \notin Registry(variant) =>
    /\ \A r \in RunIds : calls[r] = <<>>
    /\ DOMAIN reports = {}
    /\ response \notin {"report", "exit0"}

\* C10: with the endpoint unconfigured no call outcome is recorded and no
\* report is produced, in every connection mode.
C10_MissingEndpoint ==
  ~cfg.url =>
    /\ \A r \in RunIds : run[r].stats.totalQueries = 0 /\ calls[r] = <<>>
    /\ DOMAIN reports = {}
    /\ response \notin {"report", "exit0"}

-----------------------------------------------------------------------------
\* Vocabulary of the report properties.

\* The variants whose report has a median and percentiles.
WithSamples == {"advanced", "compare", "api"}

\* The run r is finished and reported.
Reported(r) == r \in DOMAIN reports

\* The successful latencies of run r in ascending order.
Ascending(r) == sortedLatencies(run[r].stats)

\* The median of a non-empty ascending list: the central element, or the mean
\* of the two central elements.
MedianOf(lat) ==
  LET n == Len(lat)
  IN IF n % 2 = 1 THEN Num(lat[(n + 1) \div 2])
     ELSE Rat(lat[n \div 2] + lat[(n \div 2) + 1], 2)

\* C11: the reported median of the successful latencies is the central
\* element of the ascending samples for an odd number of samples and the mean
\* of the two central elements for an even number, in the API route and in
\* the scripts.
C11_Median ==
  \A r \in RunIds :
    (Reported(r) /\ variant \in WithSamples /\ Len(Ascending(r)) > 0) =>
      reports[r].medianLatency = MedianOf(Ascending(r))

\* The samples of an ascending list that are below v, and at most v.
Below(lat, v) == Cardinality({i \in DOMAIN lat : lat[i] < v})
AtMost(lat, v) == Cardinality({i \in DOMAIN lat : lat[i] <= v})

\* The percentile P of a non-empty ascending list of n samples is its element
\* at the 0-based index ceil(P * n / 100) - 1, which lies in 0..n-1; at least
\* P percent of the samples are at most that element and fewer than P percent
\* are below it.
IsPercentile(lat, P, x) ==
  LET n == Len(lat)
      index == Ceil(P * n, 100) - 1
  IN /\ 0 <= index /\ index <= n - 1
     /\ x = Num(lat[index + 1])
     /\ AtMost(lat, lat[index + 1]) * 100 >= P * n
     /\ Below(lat, lat[index + 1]) * 100 < P * n

\* C12: for every non-empty set of n successful latencies the reported 95th
\* and 99th percentiles are the samples at index ceil(P * n / 100) - 1 of the
\* ascending samples, an index within 0..n-1; nothing is interpolated.
C12_Percentile ==
  \A r \in RunIds :
    (Reported(r) /\ variant \in WithSamples /\ Len(Ascending(r)) > 0) =>
      /\ IsPercentile(Ascending(r), 95, reports[r].p95Latency)
      /\ IsPercentile(Ascending(r), 99, reports[r].p99Latency)

\* The report of the latencies 1..20: P95 = 19 and P99 = 20.
C12_Witness ==
  /\ Reported(1) /\ variant \in WithSamples
  /\ Ascending(1) = [i \in 1..20 |-> i]
  /\ reports[1].p95Latency = Num(19)
  /\ reports[1].p99Latency = Num(20)

\* The half-open range [lo, hi) of every bucket; hi = Infinity has no end.
BucketRange ==
  [b \in BucketNames |->
     CASE b = "0-50ms" -> <<0, 50>>
       [] b = "50-100ms" -> <<50, 100>>
       [] b = "100-200ms" -> <<100, 200>>
       [] b = "200-500ms" -> <<200, 500>>
       [] OTHER -> <<500, Infinity>>]

InBucket(latency, b) ==
  /\ BucketRange[b][1] <= latency
  /\ BucketRange[b][2] = Infinity \/ latency < BucketRange[b][2]

\* C13: a step that records a success with latency L adds one to the bucket
\* whose half-open range holds L and leaves the other four as they were; a
\* step that records a failure leaves all five as they were.
C13_Step ==
  \A r \in RunIds :
    LET st == run[r].stats
        after == run[r]'.stats
    IN variant \in WithSamples =>
         /\ after.successfulQueries = st.successfulQueries + 1 =>
              LET L == after.queries[Len(after.queries)].latency
              IN \A b \in BucketNames :
                   after.latencyBuckets[b] =
                     st.latencyBuckets[b] + (IF InBucket(L, b) THEN 1 ELSE 0)
         /\ after.failedQueries = st.failedQueries + 1 =>
              after.latencyBuckets = st.latencyBuckets

\* C13 as a property of every step: each recording step changes the buckets
\* as stated above.
C13_Buckets == [][C13_Step]_vars

\* After failures, a success with latency 50 is recorded: it is the only
\* entry of the buckets and it is in "50-100ms".
C13_Witness ==
  /\ variant \in WithSamples
  /\ run[1].stats.failedQueries > 0
  /\ Len(run[1].stats.queries) = 1
  /\ run[1].stats.queries[1].latency = 50
  /\ run[1].stats.queries[1].queryNum = run[1].stats.totalQueries
  /\ run[1].stats.latencyBuckets["50-100ms"] = 1
  /\ \A b \in BucketNames \ {"50-100ms"} : run[1].stats.latencyBuckets[b] = 0

\* The number of errors a report of the route shows.
ErrorCap == 5

\* C14 as stated: the error list of the accumulator never has more than five
\* entries; a failure recorded when it has five is counted but not stored.
C14_Step ==
  \A r \in RunIds :
    LET st == run[r].stats
        after == run[r]'.stats
    IN /\ Len(after.errors) <= ErrorCap
       /\ (after.failedQueries = st.failedQueries + 1 /\ Len(st.errors) >= ErrorCap)
            => after.errors = st.errors

\* C14: every step keeps the error list of the accumulator within the cap.
\* The catch blocks append without a test of the length, so a run with six
\* failed calls stores a sixth entry.
C14_ErrorsBounded == [][C14_Step]_vars

\* The error sample of a report is the first `cap` entries of the error list
\* of the finished run, which has one entry per failed call with the call's
\* 1-based index and its message.  No two entries are of the same call, and
\* where the calls settle in the order they were made (everywhere but in the
\* basic script) the entries are in the order of the calls.
ErrorSample(r, cap) ==
  LET st == run[r].stats
      shown == reports[r].errors
  IN /\ Len(st.errors) = st.failedQueries
     /\ st.failedQueries + st.successfulQueries = st.totalQueries
     /\ Len(shown) = Min(cap, st.failedQueries)
     /\ \A i \in DOMAIN shown :
          /\ shown[i] = st.errors[i]
          /\ shown[i].queryNum \in 1..st.totalQueries
          /\ shown[i].error \in ErrorMessages
          /\ \A j \in DOMAIN st.errors :
               /\ i # j => shown[i].queryNum # st.errors[j].queryNum
               /\ (variant # "basic" /\ i < j) =>
                    shown[i].queryNum < st.errors[j].queryNum
          /\ \A q \in DOMAIN st.queries : st.queries[q].queryNum # shown[i].queryNum

ReportCap(v) ==
  CASE v \in {"api", "advanced"} -> ErrorCap
    [] v = "compare" -> 3
    [] OTHER -> 10

LatencyFields(r) ==
  {reports[r].avgLatency, reports[r].minLatency, reports[r].maxLatency}
  \cup (IF variant \in WithSamples
          THEN {reports[r].medianLatency, reports[r].p95Latency,
                reports[r].p99Latency}
          ELSE {})

\* C16: a finished run in which every call failed is reported with
\* successRate = 0 and every latency field (average, median, P95, P99, min,
\* max) equal to 0, none of them NaN or Infinity.
C16_AllFailed ==
  \A r \in RunIds :
    (Reported(r) /\ variant \in WithSamples /\ run[r].stats.totalQueries >= 1
       /\ run[r].stats.successfulQueries = 0) =>
      /\ reports[r].successRate = Num(0)
      /\ LatencyFields(r) = {Num(0)}

\* C17: the report of a run with no calls has a qps and a successRate that
\* are numbers, not the result of a division by zero.
C17_NoCalls ==
  \A r \in RunIds :
    (Reported(r) /\ run[r].stats.totalQueries = 0) =>
      /\ reports[r].qps.k = "num"
      /\ reports[r].successRate.k = "num"

\* Every call of run r succeeded with latency L.
AllSucceededWith(r, L) ==
  /\ calls[r] # <<>>
  /\ \A k \in DOMAIN calls[r] : calls[r][k].state = "ok" /\ calls[r][k].latency = L

\* C18: when every call of a count-based run succeeds with the same latency
\* L, the report has avgLatency = medianLatency = p95Latency = p99Latency =
\* minLatency = maxLatency = L and successRate = 100, and the bucket of L
\* counts all N calls while the other buckets count none.
C18_Uniform ==
  \A r \in RunIds :
    \A L \in {calls[r][k].latency : k \in DOMAIN calls[r]} :
      (Reported(r) /\ CountMode /\ AllSucceededWith(r, L)) =>
        /\ Len(calls[r]) = cfg.totalQueries
        /\ LatencyFields(r) = {Num(L)}
        /\ reports[r].successRate = Num(100)
        /\ variant \in WithSamples =>
             \A b \in BucketNames :
               reports[r].latencyBuckets[b] =
                 IF InBucket(L, b) THEN cfg.totalQueries ELSE 0

\* A reported run of one batch of two calls that both took one tick.
C18_Witness ==
  \E r \in RunIds :
    /\ Reported(r) /\ CountMode /\ variant \in WithSamples
    /\ cfg.totalQueries = 2 /\ cfg.concurrency = 2
    /\ AllSucceededWith(r, TickMs)
    /\ reports[r].medianLatency = Num(TickMs)

\* The size the call with the 1-based index k is to be issued with.
SizeOf(v, pattern, k) ==
  IF pattern = "mixed"
    THEN MixedLimits(v)[((k - 1) % Len(MixedLimits(v))) + 1]
    ELSE FixedLimits(v)[pattern]

\* C19: the size of a call is a function of the pattern and of the call's
\* index: under `mixed` the call with the 1-based index k has the size
\* sizes[(k - 1) mod length(sizes)], under every other registered pattern
\* every call has the pattern's fixed size.
C19_SizeOfCall ==
  \A r \in RunIds :
    (variant \in WithSamples /\ cfg.pattern \in Registry(variant)) =>
      /\ \A q \in DOMAIN run[r].stats.queries :
           run[r].stats.queries[q].limit =
             SizeOf(variant, cfg.pattern, run[r].stats.queries[q].queryNum)
      /\ \A k \in DOMAIN calls[r] :
           calls[r][k].limit = SizeOf(variant, cfg.pattern, calls[r][k].queryNum)

\* A `mixed` run of a script has recorded its 21st call: the first ten calls
\* have the sizes 1, 5, 10, 25, 50, 1, 5, 10, 25, 50 and the 21st has 1.
C19_Witness ==
  /\ variant = "advanced" /\ cfg.pattern = "mixed"
  /\ Len(run[1].stats.queries) = 21
  /\ \A q \in 1..21 : run[1].stats.queries[q].queryNum = q
  /\ run[1].stats.queries[21].limit = 1
  /\ [q \in 1..10 |-> run[1].stats.queries[q].limit]
       = <<1, 5, 10, 25, 50, 1, 5, 10, 25, 50>>

\* C20: the indices of the calls are 1-based and grow with the launch order
\* across the whole run: the calls issued so far carry exactly the indices
\* 1..n, each once, in launch order; every call of a later batch has a larger
\* index than every call of an earlier batch; a finished count-based run has
\* used exactly 1..N.
C20_Indices ==
  \A r \in RunIds :
    LET cs == calls[r]
    IN /\ {cs[k].queryNum : k \in DOMAIN cs} = 1..Len(cs)
       /\ \A j, k \in DOMAIN cs :
            /\ j < k => cs[j].queryNum < cs[k].queryNum
            /\ cs[j].batch < cs[k].batch => cs[j].queryNum < cs[k].queryNum
       /\ \A q \in DOMAIN run[r].stats.queries :
            \E k \in DOMAIN cs :
              /\ cs[k].queryNum = run[r].stats.queries[q].queryNum
              /\ cs[k].state = "ok"
       /\ \A e \in DOMAIN run[r].stats.errors :
            \E k \in DOMAIN cs :
              /\ cs[k].queryNum = run[r].stats.errors[e].queryNum
              /\ cs[k].state = "failed"
       /\ (run[r].status = "done" /\ CountMode /\ cfg.concurrency >= 1) =>
            {cs[k].queryNum : k \in DOMAIN cs} = 1..cfg.totalQueries

\* The second batch of a run with batches of two has been launched: its call
\* has the index 3.
C20_Witness ==
  \E r \in RunIds :
    /\ cfg.concurrency = 2 /\ Len(calls[r]) = 3
    /\ calls[r][3].batch = 2 /\ calls[r][3].queryNum = 3
    /\ calls[r][1].batch = 1 /\ calls[r][2].batch = 1

-----------------------------------------------------------------------------
\* The delay between batches.

\* The number of batches of the basic script's run.
Batches == Len(run[1].batchSizes)

\* The awaited batch of the basic script's run has joined in this step.
BasicJoined ==
  /\ variant = "basic" /\ run[1].status = "joining"
  /\ run[1]'.status # "joining" \/ run[1]'.cur # run[1].cur

\* C21: the delay is honoured only between batches.  With delayMs > 0 every
\* join of a batch but the last is followed by one wait of delayMs, after
\* which the next batch is awaited; the join of the last batch is followed by
\* no wait and nothing waits before the first batch is awaited, so a run of B
\* batches waits B - 1 times; with delayMs = 0, and in the dispatchers that
\* have no delay, nothing ever waits.
C21_Step ==
  /\ BasicJoined =>
       /\ BatchDrained(calls[1], run[1].cur)
       /\ IF cfg.delayMs > 0 /\ run[1].cur < Batches
            THEN /\ run[1]'.status = "delay" /\ run[1]'.cur = run[1].cur
                 /\ deadline' = clock + cfg.delayMs
            ELSE IF run[1].cur < Batches
              THEN run[1]'.status = "joining" /\ run[1]'.cur = run[1].cur + 1
              ELSE run[1]'.status = "done"
  /\ (run[1].status = "delay" /\ run[1]'.status # "delay") =>
       /\ clock >= deadline
       /\ run[1]'.status = "joining" /\ run[1]'.cur = run[1].cur + 1
  /\ \A r \in RunIds :
       run[r]'.status = "delay" =>
         /\ variant = "basic" /\ r = 1 /\ cfg.delayMs > 0
         /\ run[r].status \in {"joining", "delay"}
         /\ 1 <= run[r]'.cur /\ run[r]'.cur < Batches
  /\ (variant = "basic" /\ run[1]'.status = "done") =>
       run[1]'.stats.endTime - run[1]'.stats.startTime
         >= (Max(Batches, 1) - 1) * cfg.delayMs

\* C21 as a property of every step of every variant.
C21_DelayBetweenBatches == [][C21_Step]_vars

\* A run of two batches with a delay has finished: it waited once, between
\* the two joins.
C21_Witness ==
  /\ variant = "basic" /\ cfg.delayMs > 0
  /\ Batches = 2 /\ run[1].status = "done"
  /\ run[1].stats.endTime - run[1].stats.startTime = cfg.delayMs

\* C22: in the basic script with delayMs > 0 no query of batch k+1 is started
\* before batch k has joined and the delay that follows it has elapsed: every
\* query started so far belongs to the awaited batch or to a batch before it.
C22_DelaySeparatesQueries ==
  (variant = "basic" /\ cfg.delayMs > 0) =>
    \A k \in DOMAIN calls[1] : calls[1][k].batch <= run[1].cur

-----------------------------------------------------------------------------
\* Connection strategies.

\* The runs that have been started.
StartedRuns == {r \in RunIds : run[r].status # "idle"}

\* The handles the calls of run r went through.
HandlesOf(r) == {calls[r][k].handle : k \in DOMAIN calls[r]}

\* C23: a shared run has one handle, constructed before its first call, and
\* every call of the run goes through it; a new-client run constructs one
\* handle per call, so it has constructed as many handles as it has issued
\* calls and no handle serves two calls.
C23_Handles ==
  /\ \A r \in StartedRuns :
       IF run[r].mode = "shared"
         THEN /\ run[r].client \in 1..handles
              /\ \A k \in DOMAIN calls[r] : calls[r][k].handle = run[r].client
         ELSE /\ HandlesOf(r) \subseteq 1..handles
              /\ Cardinality(HandlesOf(r)) = Len(calls[r])
              /\ \A o \in StartedRuns : o # r => run[o].client \notin HandlesOf(r)
  /\ handles = Cardinality(UNION {HandlesOf(r) \cup {run[r].client} : r \in StartedRuns}
                             \ {0})

-----------------------------------------------------------------------------
\* Comparison mode: the two sub-runs.

Comparison == cfg.mode = "both"
Other(r) == 3 - r

\* A call of run r settles in the step.
SettlesIn(r) ==
  \E k \in DOMAIN calls[r] :
    /\ calls[r][k].state = "inflight"
    /\ k \in DOMAIN calls[r]' /\ calls[r]'[k].state # "inflight"

C24_Step ==
  Comparison =>
    \A r \in RunIds :
      /\ SettlesIn(r) =>
           /\ run[Other(r)]'.stats = run[Other(r)].stats
           /\ run[r]'.stats.totalQueries = run[r].stats.totalQueries + 1
      /\ run[r]'.stats.totalQueries = Cardinality(Settled(calls[r]'))
      /\ run[r]'.stats.successfulQueries = Cardinality(CallsIn(calls[r]', "ok"))
      /\ run[r]'.stats.failedQueries = Cardinality(CallsIn(calls[r]', "failed"))
      /\ run[r]'.status = "done" => run[r]'.stats.totalQueries = Len(calls[r]')

\* C24: in comparison mode a call that settles in one sub-run is counted in
\* that sub-run's stats and leaves the other sub-run's stats unchanged,
\* whatever the interleaving; each stats object counts exactly the settled
\* calls of its own sub-run, and all of them when the sub-run has finished.
C24_SeparateStats == [][C24_Step]_vars

\* Both sub-runs in flight at once, with different outcomes recorded.
C24_Witness ==
  /\ variant = "api" /\ Comparison
  /\ run[1].status = "joining" /\ run[2].status = "joining"
  /\ run[1].stats.successfulQueries = 1 /\ run[1].stats.failedQueries = 0
  /\ run[2].stats.failedQueries = 1 /\ run[2].stats.successfulQueries = 0
  /\ InFlight(calls[1]) # {}

\* C25: comparison mode gives both sub-runs the same workload: the calls with
\* the same index have the same size parameter and batch in both sub-runs,
\* the batches issued so far have the same sizes, and two finished sub-runs
\* have issued the same number of calls in the same batches.
C25_SameWorkload ==
  Comparison =>
    /\ \A k \in DOMAIN calls[1] \cap DOMAIN calls[2] :
         /\ calls[1][k].limit = calls[2][k].limit
         /\ calls[1][k].batch = calls[2][k].batch
         /\ calls[1][k].queryNum = calls[2][k].queryNum
    /\ \A i \in DOMAIN run[1].batchSizes \cap DOMAIN run[2].batchSizes :
         run[1].batchSizes[i] = run[2].batchSizes[i]
    /\ (run[1].status = "done" /\ run[2].status = "done") =>
         /\ Len(calls[1]) = Len(calls[2])
         /\ run[1].batchSizes = run[2].batchSizes
         /\ Len(calls[1]) = cfg.totalQueries

C25_Witness ==
  /\ Comparison
  /\ run[1].status = "done" /\ run[2].status = "done"
  /\ run[1].mode = "shared" /\ run[2].mode = "new"
  /\ Len(calls[2]) = 2 /\ Len(run[2].batchSizes) = 2
  /\ calls[2][1].limit # calls[2][2].limit

-----------------------------------------------------------------------------
\* The verdict.

Compared == verdict.summary.recommendation \notin {"none", "threw"}

\* The average latencies and throughputs the comparison was made of.
SharedAvg == reports[1].avgLatency
NewAvg == reports[2].avgLatency
SharedQps == reports[1].qps
NewQps == reports[2].qps

\* Both values are positive finite numbers.
Positive(a, b) ==
  a.k = "num" /\ b.k = "num" /\ Gt(a, Num(0)) /\ Gt(b, Num(0))

\* |a - b| / b x 100 to one decimal.
RelativeTo(a, b) == toFixed(AbsNum(percentOf(a, b, b)), 1)

\* C26: for two different positive average latencies the verdict names the
\* strategy with the lower one and gives the percentage of the difference
\* relative to the slower strategy's latency; for two different positive
\* throughputs it names the strategy with the higher one and gives the
\* percentage relative to the other's.
C26_Verdict ==
  Compared =>
    /\ (Positive(SharedAvg, NewAvg) /\ SharedAvg # NewAvg) =>
         IF Lt(SharedAvg, NewAvg)
           THEN /\ verdict.summary.latencyWinner = "shared"
                /\ verdict.summary.latencyPercent = RelativeTo(SharedAvg, NewAvg)
           ELSE /\ verdict.summary.latencyWinner = "new"
                /\ verdict.summary.latencyPercent = RelativeTo(NewAvg, SharedAvg)
    /\ (Positive(SharedQps, NewQps) /\ SharedQps # NewQps) =>
         IF Gt(SharedQps, NewQps)
           THEN /\ verdict.summary.qpsWinner = "shared"
                /\ verdict.summary.qpsPercent = RelativeTo(SharedQps, NewQps)
           ELSE /\ verdict.summary.qpsWinner = "new"
                /\ verdict.summary.qpsPercent = RelativeTo(NewQps, SharedQps)

\* C27: when the two average latencies are equal the verdict names no
\* strategy as the faster one and shows no improvement, and likewise for two
\* equal throughputs.
C27_Tie ==
  Compared =>
    /\ (Positive(SharedAvg, NewAvg) /\ SharedAvg = NewAvg) =>
         /\ verdict.summary.latencyWinner \notin {"shared", "new"}
         /\ verdict.summary.latencyPercent = Num(0)
    /\ (Positive(SharedQps, NewQps) /\ SharedQps = NewQps) =>
         /\ verdict.summary.qpsWinner \notin {"shared", "new"}
         /\ verdict.summary.qpsPercent = Num(0)

-----------------------------------------------------------------------------
\* Termination.

\* Run r is dispatching the calls of a count-based workload.
Dispatching(r) == CountMode /\ cfg.delayMs = 0 /\ run[r].status = "joining"

\* Run r returned its stats with every call recorded.
Returned(r) ==
  /\ run[r].status = "done"
  /\ InFlight(calls[r]) = {}
  /\ Len(calls[r]) = cfg.totalQueries
  /\ run[r].stats.totalQueries = cfg.totalQueries
  /\ run[r].stats.endTime >= run[r].stats.startTime

\* C28: when every call that is issued resolves or throws, a count-based run
\* that is dispatching eventually returns its stats, with all totalQueries
\* calls issued and recorded and endTime set.
C28_Terminates == \A r \in RunIds : Dispatching(r) ~> Returned(r)

\* A run of several batches that has returned.
C28_Witness ==
  /\ \E r \in RunIds : Returned(r) /\ Len(run[r].batchSizes) >= 2
  /\ CountMode /\ cfg.delayMs = 0

-----------------------------------------------------------------------------
\* Calls that do not resolve.

\* Call k of run r is in flight before and after the step.
Unresolved(r, k) ==
  /\ calls[r][k].state = "inflight"
  /\ k \in DOMAIN calls[r]' /\ calls[r]'[k].state = "inflight"

C29_Step ==
  \A r \in RunIds : \A k \in DOMAIN calls[r] :
    Unresolved(r, k) =>
      /\ run[r]'.status \in {"joining", "delay"}
      /\ run[r]'.cur <= calls[r][k].batch
      /\ Len(calls[r]') = Len(calls[r])
      /\ variant # "basic" =>
           /\ run[r]'.status = "joining"
           /\ run[r]'.cur = calls[r][k].batch
           /\ \A j \in DOMAIN calls[r]' : calls[r]'[j].batch <= calls[r][k].batch
      /\ r \notin DOMAIN reports'
      /\ \A j \in DOMAIN calls[r] :
           (calls[r][j].state = "inflight" /\ calls[r]'[j].state # "inflight") =>
             /\ run[r]'.stats.totalQueries = run[r].stats.totalQueries + 1
             /\ Cardinality(Settled(calls[r]')) = run[r]'.stats.totalQueries

\* C29: nothing times a call out.  As long as a call is unresolved, whatever
\* time passes, its run stays at the join of that call's batch: no further
\* call is issued (and in the looping dispatchers no call of a later batch
\* exists), the run does not finish and no report of it is made; a call of
\* the same run that settles meanwhile is recorded.
C29_NoTimeout == [][C29_Step]_vars

\* A call still unresolved at the end of the clock, its batch companion
\* recorded and a later batch not yet issued.
C29_Witness ==
  /\ variant = "api" /\ cfg.mode = "shared"
  /\ clock = MaxClock /\ MaxClock > 0
  /\ cfg.totalQueries > Len(calls[1])
  /\ \E j, k \in DOMAIN calls[1] :
       /\ calls[1][j].batch = calls[1][k].batch
       /\ calls[1][k].state = "inflight" /\ calls[1][k].start = 0
       /\ calls[1][j].state = "ok"
  /\ run[1].stats.totalQueries = 1
  /\ run[1].status = "joining" /\ response = "none"

-----------------------------------------------------------------------------
\* Reports and the runs they are made of.

\* The step computes the report of run r.
Reports(r) ==
  /\ r \in DOMAIN reports'
  /\ r \notin DOMAIN reports \/ reports'[r] # reports[r]

C30_Step ==
  \A r \in RunIds :
    /\ Reports(r) =>
         /\ run[r].status = "done"
         /\ InFlight(calls[r]) = {}
         /\ run[r].stats.totalQueries = Len(calls[r])
         /\ reports'[r] = reportOf(variant, run[r].stats)
    /\ r \in DOMAIN reports =>
         /\ r \in DOMAIN reports'
         /\ run[r]'.stats = run[r].stats
         /\ calls[r]' = calls[r]

\* C30: a report is computed only of a run that has finished, with no call in
\* flight and every call recorded, and the stats of a run whose report has
\* been computed never change afterwards.
C30_ReportOfFinishedRun == [][C30_Step]_vars

\* A comparison by the route whose sub-runs finished at different times and
\* were reported together.
C30_Witness ==
  /\ variant = "api" /\ cfg.mode = "both" /\ response = "report"
  /\ DOMAIN reports = {1, 2}
  /\ run[1].stats.endTime < run[2].stats.endTime
  /\ run[1].stats.totalQueries = 2 /\ run[2].stats.totalQueries = 2

-----------------------------------------------------------------------------
\* The order of the two sub-runs of a comparison.

\* Run r is started in the step.
Starts(r) == run[r].status = "idle" /\ run[r]'.status # "idle"

C31_Step ==
  /\ variant = "compare" =>
       /\ Starts(2) =>
            /\ run[1].status = "done" /\ InFlight(calls[1]) = {}
            /\ clock >= run[1].stats.endTime + CompareWaitMs
       /\ calls[2]' # <<>> =>
            /\ run[1]'.status = "done"
            /\ \A k \in DOMAIN calls[1]' : calls[1]'[k].state # "inflight"
            /\ \A k \in DOMAIN calls[2]' :
                 calls[2]'[k].start >= run[1]'.stats.endTime + CompareWaitMs
  /\ (variant = "api" /\ Comparison) =>
       /\ Starts(1) <=> Starts(2)
       /\ (Starts(1) /\ cfg.totalQueries >= 1 /\ run[1]'.status # "failed") =>
            /\ run[1]'.status = "joining" /\ run[2]'.status = "joining"
            /\ \E k \in DOMAIN calls[1]' : calls[1]'[k].state = "inflight"
            /\ calls[2]' # <<>>
            /\ cfg.url => \E k \in DOMAIN calls[2]' : calls[2]'[k].state = "inflight"

\* C31: in the comparison script the new-client sub-run starts, and its calls
\* are issued, only after the shared sub-run has returned with every call
\* resolved (and the pause has passed); in the route's 'both' mode the two
\* sub-runs are started in the same step, before either has finished, with
\* calls of both in flight.
C31_SubRunOrder == [][C31_Step]_vars

\* The route's sub-runs overlapping: the shared sub-run is in its second
\* batch while the first call of the new-client sub-run is still in flight.
C31_Witness ==
  /\ variant = "api" /\ Comparison
  /\ run[1].cur = 2 /\ run[2].cur = 1
  /\ InFlight(calls[1]) # {} /\ InFlight(calls[2]) # {}

-----------------------------------------------------------------------------
\* Progress of the route's loop.

\* Run r begins a loop iteration in the step.
Iterates(r) == Len(run[r]'.batchSizes) > Len(run[r].batchSizes)

\* C32: in the route, for every concurrency of the request and
\* totalQueries >= 1, each loop iteration issues at least one call, the
\* number of calls counted never goes back and grows with each join that is
\* followed by another iteration, and a run makes at most totalQueries
\* iterations.
C32_Progress ==
  [][(variant = "api" /\ cfg.totalQueries >= 1) =>
       \A r \in RunIds :
         /\ Iterates(r) =>
              /\ run[r]'.batchSizes[Len(run[r]'.batchSizes)] >= 1
              /\ Len(calls[r]') > Len(calls[r])
              /\ Len(run[r].batchSizes) >= 1 => run[r]'.queryCount > run[r].queryCount
         /\ run[r]'.queryCount >= run[r].queryCount
         /\ Len(run[r]'.batchSizes) <= cfg.totalQueries]_vars

-----------------------------------------------------------------------------
\* The order of the latency figures of a report.

\* a <= b for two finite numbers.
Leq(a, b) == a.k = "num" /\ b.k = "num" /\ ~Gt(a, b)

\* C33: the route's report of a finished run with at least one successful
\* call has minLatency <= medianLatency <= p95Latency <= p99Latency <=
\* maxLatency and minLatency <= avgLatency <= maxLatency.
C33_Ordered ==
  (variant = "api" /\ Reported(1) /\ run[1].stats.successfulQueries >= 1) =>
    LET rep == reports[1]
    IN /\ Leq(rep.minLatency, rep.medianLatency)
       /\ Leq(rep.medianLatency, rep.p95Latency)
       /\ Leq(rep.p95Latency, rep.p99Latency)
       /\ Leq(rep.p99Latency, rep.maxLatency)
       /\ Leq(rep.minLatency, rep.avgLatency)
       /\ Leq(rep.avgLatency, rep.maxLatency)

\* A report of samples recorded out of order whose figures are all different.
C33_Witness ==
  /\ variant = "api" /\ Reported(1)
  /\ Len(run[1].stats.queries) >= 100
  /\ run[1].stats.queries[1].latency > run[1].stats.queries[2].latency
  /\ reports[1].minLatency # reports[1].medianLatency
  /\ reports[1].medianLatency # reports[1].p95Latency
  /\ reports[1].p95Latency # reports[1].p99Latency
  /\ reports[1].p99Latency # reports[1].maxLatency

-----------------------------------------------------------------------------
\* Samples, buckets and errors against the counters.

RECURSIVE BucketSum(_, _)
BucketSum(buckets, names) ==
  IF names = {} THEN 0
  ELSE LET b == CHOOSE x \in names : TRUE
       IN buckets[b] + BucketSum(buckets, names \ {b})

C34_Step ==
  \A r \in RunIds :
    LET st == run[r].stats
        st2 == run[r]'.stats
    IN /\ Len(st2.errors) = st2.failedQueries
       /\ variant \in WithSamples =>
            /\ Len(st2.queries) = st2.successfulQueries
            /\ BucketSum(st2.latencyBuckets, BucketNames) = st2.successfulQueries
       /\ st2.failedQueries > st.failedQueries =>
            /\ st2.queries = st.queries
            /\ st2.latencyBuckets = st.latencyBuckets
            /\ st2.successfulQueries = st.successfulQueries
       /\ st2.successfulQueries > st.successfulQueries =>
            /\ st2.errors = st.errors
            /\ st2.failedQueries = st.failedQueries

\* C34: after every step the number of samples kept equals successfulQueries
\* and the sum of the five bucket counters (in the variants that keep
\* samples), and the number of errors kept equals failedQueries; a failure
\* changes neither the samples nor the buckets and a success adds no error.
C34_Consistent == [][C34_Step]_vars

\* Between completions: one success and one failure recorded, a call in
\* flight.
C34_Witness ==
  \E r \in RunIds :
    /\ variant \in WithSamples
    /\ Len(run[r].stats.queries) = 1 /\ Len(run[r].stats.errors) = 1
    /\ InFlight(calls[r]) # {}

-----------------------------------------------------------------------------
\* The calls in flight of a comparison by the route.

\* C35: in the route's 'both' mode each sub-run has at most `concurrency`
\* calls in flight and the two together at most twice as many; a sub-run whose
\* own batch has settled can go on, whatever calls of the other sub-run are
\* in flight.
C35_InFlight ==
  (variant = "api" /\ Comparison) =>
    /\ \A r \in RunIds : Cardinality(InFlight(calls[r])) <= cfg.concurrency
    /\ Cardinality(InFlight(calls[1])) + Cardinality(InFlight(calls[2]))
         <= 2 * cfg.concurrency
    /\ \A r \in RunIds :
         (run[r].status = "joining" /\ BatchDrained(calls[r], run[r].cur))
           => ENABLED Join(r)

\* Both sub-runs with a full batch in flight, the new-client sub-run in its
\* second batch while the first batch of the shared sub-run is unresolved.
C35_Witness ==
  /\ variant = "api" /\ Comparison
  /\ run[2].cur = 2 /\ run[1].cur = 1
  /\ Cardinality(InFlight(calls[1])) + Cardinality(InFlight(calls[2]))
       = 2 * cfg.concurrency

-----------------------------------------------------------------------------
\* The recommendation.

\* The improvements of the shared strategy over the new-client strategy, in
\* percent.
AvgImprovement == percentOf(NewAvg, SharedAvg, NewAvg)
QpsImprovement == percentOf(SharedQps, NewQps, NewQps)

\* C36: the recommendation is the shared client exactly when the improvement
\* of the average latency or of the throughput exceeds 5 percent, and is
\* "similar" in every other case; it is never the new-client strategy.
C36_Recommendation ==
  Compared =>
    /\ verdict.summary.recommendation \in {"shared", "similar"}
    /\ verdict.summary.recommendation = "shared"
         <=> (Gt(AvgImprovement, Num(5)) \/ Gt(QpsImprovement, Num(5)))

-----------------------------------------------------------------------------
\* The percentages of the verdict as numbers.

\* The four figures the verdict is made of are finite numbers.
FiniteReports ==
  /\ SharedAvg.k = "num" /\ NewAvg.k = "num"
  /\ SharedQps.k = "num" /\ NewQps.k = "num"

\* C37: for two reports with finite averages and throughputs the percentages
\* of the verdict are finite numbers, also when the new-client report has an
\* average latency of 0 or a throughput of 0.
C37_WellDefined ==
  (Compared /\ FiniteReports) =>
    /\ verdict.summary.latencyPercent.k = "num"
    /\ verdict.summary.qpsPercent.k = "num"

====
